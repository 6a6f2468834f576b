----------------------------- MODULE UserString -----------------------------
(***************************************************************************)
(* What the store of the user string promises: the string in use is the one *)
(* set last, and setting it is over only when that string is kept.  It is   *)
(* kept by changes that each take a while: power lost during one leaves any *)
(* string or none, power lost before, between and after them what is kept   *)
(* then.  A restart brings back the string kept, or the default.            *)
(***************************************************************************)
CONSTANTS
  Strings,   (* sequences of characters, the empty one among them *)
  Default,   (* the string in use when none is kept               *)
  None       (* not a string                                      *)

VARIABLES
  value,    (* the string in use *)
  kept,     (* the string a restart finds, or None *)
  setting,  (* a string is being stored *)
  risk,     (* and what is kept is being changed *)
  on        (* the device has power *)

InUse(k) == IF k = None THEN Default ELSE k

Init ==
  /\ kept \in Strings \cup {None}
  /\ value = InUse(kept)
  /\ setting = FALSE /\ risk = FALSE
  /\ on = TRUE

\* An empty string is used but not kept.
Set(s) ==
  /\ on /\ ~setting
  /\ value' = s
  /\ setting' = (s # <<>>)
  /\ UNCHANGED <<kept, risk, on>>

Change ==
  /\ setting /\ ~risk
  /\ risk' = TRUE
  /\ UNCHANGED <<value, kept, setting, on>>

\* The old string goes before the new one is there.
Keep ==
  /\ risk
  /\ kept' \in {None, value}
  /\ risk' = FALSE
  /\ UNCHANGED <<value, setting, on>>

Finish ==
  /\ setting /\ ~risk /\ kept = value
  /\ setting' = FALSE
  /\ UNCHANGED <<value, kept, risk, on>>

PowerLoss ==
  /\ on
  /\ on' = FALSE /\ setting' = FALSE /\ risk' = FALSE
  /\ kept' \in IF risk THEN Strings \cup {None} ELSE {kept}
  /\ UNCHANGED value

PowerOn ==
  /\ ~on
  /\ on' = TRUE
  /\ value' = InUse(kept)
  /\ UNCHANGED <<kept, setting, risk>>

Next == (\E s \in Strings : Set(s)) \/ Change \/ Keep \/ Finish \/ PowerLoss \/ PowerOn

Spec == Init /\ [][Next]_<<value, kept, setting, risk, on>>
=============================================================================
