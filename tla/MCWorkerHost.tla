---------------------------- MODULE MCWorkerHost ----------------------------
(* Two sessions, one that asks for one extension of two and one for any.     *)
EXTENDS WorkerHost

CONSTANTS s1, s2, zip, pdf

MCAsked == (s1 :> {zip}) @@ (s2 :> {})
=============================================================================
