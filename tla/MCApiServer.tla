----------------------------- MODULE MCApiServer -----------------------------
(* Instances of ApiServer for TLC. The handlers are interchangeable.         *)
EXTENDS ApiServer, TLC

\* List while the objectives change, GetStatus, and the graphs.
Apart ==
    { [kinds |-> {"List"}, lengths |-> {0}, edits |-> 2, until |-> 6],
      [kinds |-> {"Status"}, lengths |-> {0}, edits |-> 0, until |-> 7],
      [kinds |-> {"Budget"}, lengths |-> {14, 15, 24}, edits |-> 0, until |-> 1],
      [kinds |-> {"Rate"}, lengths |-> {15, 24}, edits |-> 0, until |-> 5],
      [kinds |-> {"Errors"}, lengths |-> {15}, edits |-> 0, until |-> 2],
      [kinds |-> {"Duration"}, lengths |-> {15}, edits |-> 0, until |-> 3] }

ListOnly == {[kinds |-> {"List"}, lengths |-> {0}, edits |-> 0, until |-> 2]}

AnyHandler == Permutations(Handlers)

=============================================================================
