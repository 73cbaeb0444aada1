---------------------------- MODULE ImportProgress ----------------------------
(***************************************************************************)
(* What a historical import promises, whoever performs it and however      *)
(* often: the days of a job are imported in any order and any number of    *)
(* times, but its frontier moves forward only, by at most one window, and  *)
(* only past days that have been imported.                                 *)
(***************************************************************************)
EXTENDS Naturals

CONSTANTS Imports, FirstDay, FinalDay, WindowDays

VARIABLES
  frontier,   \* first day of each job not covered yet
  imported    \* days of each job whose rows are stored

progressVars == <<frontier, imported>>

ProgressInit ==
  /\ frontier = [j \in Imports |-> FirstDay]
  /\ imported = [j \in Imports |-> {}]

ImportDays(j) ==
  /\ \E days \in SUBSET (FirstDay..FinalDay) :
        imported' = [imported EXCEPT ![j] = @ \cup days]
  /\ UNCHANGED frontier

AdvanceFrontier(j) ==
  /\ \E next \in frontier[j] + 1 .. frontier[j] + WindowDays :
        /\ frontier[j]..(next - 1) \subseteq imported[j]
        /\ frontier' = [frontier EXCEPT ![j] = next]
  /\ UNCHANGED imported

ProgressNext == \E j \in Imports : ImportDays(j) \/ AdvanceFrontier(j)

ProgressSpec == ProgressInit /\ [][ProgressNext]_progressVars
=============================================================================
