------------------------------ MODULE LogEvents ------------------------------
(***************************************************************************)
(* What the log webhook of packages/explicabl and its two older copies in  *)
(* packages/proxyabl do with a log before anything else.                   *)
(***************************************************************************)
EXTENDS Sequences, SequencesExt

(* filter(isDcrEventRaw): the events of a log that are about the           *)
(* registration of a client, in their order.                               *)
Registrations(log, unrelated) ==
  FoldLeft(LAMBDA kept, e : IF e # unrelated THEN Append(kept, e) ELSE kept,
           <<>>, log)
=============================================================================
