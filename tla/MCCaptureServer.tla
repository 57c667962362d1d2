---------------------------- MODULE MCCaptureServer ----------------------------
(***************************************************************************)
(* A one-shot process with two connections and another with one, over a    *)
(* directory that holds fixture 2 already.                                 *)
(***************************************************************************)
EXTENDS CaptureServer

CONSTANTS s1, s2

MCHandlers == {<<s1, 1>>, <<s1, 2>>, <<s2, 1>>}

MCEarlier == {2}
===============================================================================
