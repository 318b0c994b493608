------------------------------ MODULE Session ------------------------------
(***************************************************************************)
(* What DreamAuth2/Auth.cpp promises to Main.cpp and Loggedin.cpp through  *)
(* onLoginComplete, onLogoutComplete and onDisconnect: every Login is      *)
(* answered once, and every session that began ends once, by a logout or   *)
(* by a disconnection but never by both.                                   *)
(***************************************************************************)
EXTENDS Naturals

VARIABLES
  session,   (* what Auth is doing, as its client can tell                 *)
  begun,     (* onLoginComplete(true) so far                               *)
  ended      (* onLogoutComplete and onDisconnect so far                   *)

sessionVars == <<session, begun, ended>>

Phase == {"out", "entering", "in", "leaving"}

Init == session = "out" /\ begun = 0 /\ ended = 0

Login == session = "out" /\ session' = "entering" /\ UNCHANGED <<begun, ended>>

(* onLoginComplete(false).                                                 *)
Refused == session = "entering" /\ session' = "out" /\ UNCHANGED <<begun, ended>>

(* onLoginComplete(true).                                                  *)
Begin ==
  /\ session = "entering"
  /\ session' = "in"
  /\ begun' = begun + 1
  /\ UNCHANGED ended

Logout == session = "in" /\ session' = "leaving" /\ UNCHANGED <<begun, ended>>

(* onLogoutComplete after a Logout, onDisconnect without one.              *)
End ==
  /\ session \in {"in", "leaving"}
  /\ session' = "out"
  /\ ended' = ended + 1
  /\ UNCHANGED begun

Next == Login \/ Refused \/ Begin \/ Logout \/ End

Spec == Init /\ [][Next]_sessionVars

-----------------------------------------------------------------------------
TypeOK == session \in Phase /\ begun \in Nat /\ ended \in Nat

(* The sessions that have begun and not ended are the one Auth is in, or   *)
(* none: Loggedin starts the game module once per session and stops it     *)
(* once (Loggedin.cpp 165-187, 221-242).                                   *)
Balanced == begun = ended + (IF session \in {"in", "leaving"} THEN 1 ELSE 0)

=============================================================================
