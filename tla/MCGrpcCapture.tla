---------------------------- MODULE MCGrpcCapture ----------------------------
(* A small instance of GrpcCapture: a display that is turned, and a session *)
(* of each input source and of each image mode.                             *)
EXTENDS GrpcCapture

TwoSizes == {1, 2}
TwoOptions == {[inputSource |-> "grpc", imageMode |-> "png"],
               [inputSource |-> "scrcpy", imageMode |-> "mmap"]}
=============================================================================
