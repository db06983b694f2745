------------------------------- MODULE TuiView -------------------------------
(***************************************************************************)
(* What the user sees and does in the TUI: the list of instances, which of *)
(* them is selected, the dialogs, and the keys and clicks that act on      *)
(* them.  TuiApp, which extends this module, adds the event loop.  Scroll  *)
(* positions, the help popup and the panel in focus are left out (list in  *)
(* focus): they change nothing else.  Instances are named by numbers, in   *)
(* the order of their names.                                               *)
(***************************************************************************)
EXTENDS Naturals, Sequences, FiniteSets

CONSTANT N     \* instance types, of distinct names

ASSUME ViewAssumption == N \in Nat \ {0}

Instances == 1 .. N
None == 0

VARIABLES
  order,       \* InstancesState.order
  selected,    \* selected_index, counted from 1
  confirm,     \* show_quit_confirm
  fullscreen   \* logs_fullscreen

view == <<order, selected, confirm, fullscreen>>

IsOrder(s) == s \in [Instances -> Instances] /\ \A i \in Instances : \E k \in Instances : s[k] = i

ViewTypeOK ==
  /\ IsOrder(order)
  /\ selected \in Instances
  /\ confirm \in BOOLEAN /\ fullscreen \in BOOLEAN

\* App::new_loading(): sorted by name.
ViewInit ==
  /\ order = [k \in Instances |-> k] /\ selected = 1
  /\ confirm = FALSE /\ fullscreen = FALSE

-----------------------------------------------------------------------------
\* sort_instances_by_duration(), given the average of each instance, or None.
\* The sort is stable, and the selection goes with its instance.

Position(s, i) == CHOOSE k \in Instances : s[k] = i

Precedes(i, j, average) ==
  \/ average[i] # None /\ (average[j] = None \/ average[i] < average[j])
  \/ average[i] = None /\ average[j] = None /\ i < j

Sorted(s, average) ==
  LET Before(i) ==
        {j \in Instances : \/ Precedes(j, i, average)
                           \/ ~Precedes(i, j, average) /\ Position(s, j) < Position(s, i)}
  IN [k \in Instances |-> CHOOSE i \in Instances : Cardinality(Before(i)) = k - 1]

Sort(average) ==
  /\ order' = Sorted(order, average)
  /\ selected' = Position(order', order[selected])
  /\ UNCHANGED <<confirm, fullscreen>>

-----------------------------------------------------------------------------
\* KeyHandler: the dialog comes first, then the logs, then the list.

Keys == {"y", "n", "q", "l", "up", "down", "home", "end", "other"}

\* The user confirms: only then is the token cancelled.
Confirms(key) == confirm /\ key = "y"

NextConfirm(key) == IF confirm THEN key \notin {"y", "n"} ELSE key = "q"

Listing == ~confirm /\ ~fullscreen

NextSelected(key) ==
  CASE Listing /\ key = "up" /\ selected > 1 -> selected - 1
    [] Listing /\ key = "down" /\ selected < N -> selected + 1
    [] Listing /\ key = "home" -> 1
    [] Listing /\ key = "end" -> N
    [] OTHER -> selected

Press(key) ==
  /\ confirm' = NextConfirm(key)
  /\ fullscreen' = IF ~confirm /\ key = "l" THEN ~fullscreen ELSE fullscreen
  /\ selected' = NextSelected(key)
  /\ UNCHANGED order

\* A click on a row, whatever is shown above it, or the wheel over the list.
Mouse ==
  /\ selected' \in Instances
  /\ UNCHANGED <<order, confirm, fullscreen>>
=============================================================================
