----------------------------- MODULE MCClientApi -----------------------------
(* A small instance of ClientApi for TLC.                                  *)
EXTENDS ClientApi

(* Options, then arguments of the application; the same with an option on  *)
(* the wrong side of "--".                                                 *)
MCArgvs == {<<"-a", "-n", "-t", "--", "x">>, <<"-a", "-n", "--", "-t">>}

(* Payloads that are empty, that just fit in a message, and that do not;   *)
(* buffers of the caller that are empty, and long enough.                  *)
MCPacketLens == {0, 1, 2}
MCLens == {0, 1}

(* Within the first second, and beyond it.                                 *)
MCTimes == {1, 3}

(* Before the UNIX epoch.                                                  *)
MCOffsets == {-3}

(* The infinite deadline of the coordinator, and what is no message.       *)
MCOtherMsgs == {<<"GotoDeadline", <<0, NsPerSec>>>>, <<"Malformed", <<0, 0>>>>}
=============================================================================
