---------------------------- MODULE MCComponents ----------------------------
EXTENDS Components

\* A session packet between the preamble and two packets of other sizes.
MCPayloads == <<0, 2, 3>>
=============================================================================
