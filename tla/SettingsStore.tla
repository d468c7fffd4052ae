---------------------------- MODULE SettingsStore ----------------------------
(***************************************************************************)
(* What the store of the settings promises, without commands, machines and   *)
(* flash: the settings are shown as they are stored, a save replaces what is *)
(* stored by what was shown with one part changed, and nothing but a save    *)
(* under way or an erasure of the whole flash touches the stored settings.   *)
(* Only a reset in the middle of a save may leave anything behind.  The store *)
(* may lose its order: then it promises nothing until a reset finds order     *)
(* again.  A reset does not take it away.                                    *)
(***************************************************************************)
EXTENDS Naturals

CONSTANTS
  Settings,           \* the possible settings
  Changes,            \* what a save may turn settings into, a function to sets
  Nothing             \* no settings

VARIABLES
  stored, shown,
  wanted,    \* what a save under way is to store
  kept,      \* the store is in order
  resets     \* so far

vars == <<stored, shown, wanted, kept, resets>>

TypeOK ==
  /\ stored \in Settings \cup {Nothing}
  /\ shown \in Settings \cup {Nothing}
  /\ wanted \in Settings \cup {Nothing}
  /\ kept \in BOOLEAN /\ resets \in Nat

Init == stored = Nothing /\ shown = Nothing /\ wanted = Nothing /\ kept = TRUE /\ resets = 0

\* What is shown is what is stored; where nothing is, anything may be shown.
Load ==
  /\ shown = Nothing /\ wanted = Nothing
  /\ shown' \in IF stored = Nothing THEN Settings ELSE {stored}
  /\ UNCHANGED <<stored, wanted>>

Hide == wanted = Nothing /\ shown' = Nothing /\ UNCHANGED <<stored, wanted>>

Begin ==
  /\ wanted = Nothing /\ shown # Nothing
  /\ wanted' \in Changes[shown]
  /\ UNCHANGED <<stored, shown>>

\* The flash is erased or a word of it is programmed.
Program ==
  /\ wanted # Nothing
  /\ stored' \in Settings \cup {Nothing}
  /\ UNCHANGED <<shown, wanted>>

\* The save is over and what was wanted is stored.
Finish ==
  /\ wanted # Nothing /\ stored = wanted
  /\ wanted' = Nothing /\ shown' = Nothing
  /\ UNCHANGED stored

Erase == wanted = Nothing /\ stored' = Nothing /\ UNCHANGED <<shown, wanted>>

Work ==
  /\ kept
  /\ Load \/ Hide \/ Begin \/ Program \/ Finish \/ Erase
  /\ UNCHANGED <<kept, resets>>

Lose ==
  /\ kept /\ kept' = FALSE
  /\ stored' = Nothing /\ shown' = Nothing /\ wanted' = Nothing
  /\ UNCHANGED resets

Reset ==
  /\ shown' = Nothing /\ wanted' = Nothing
  /\ resets' = resets + 1
  /\ \/ kept /\ UNCHANGED <<kept, stored>>
     \/ ~kept /\ kept' \in BOOLEAN /\ stored' \in Settings \cup {Nothing}

Next == Work \/ Lose \/ Reset

Spec == Init /\ [][Next]_vars
=============================================================================
