------------------------------- MODULE MCEngine -------------------------------
(***************************************************************************)
(* One record of the source with its product and its metadata, an advisory *)
(* that the product is bound to by a maintenance report, and a card of     *)
(* leg 1 with its crosslink to the record, which leg 1 has published.      *)
(***************************************************************************)
EXTENDS Engine

Want(tags, body) == [tags |-> tags, body |-> body]

Bundle(product, metadata, advisory, record, report) ==
  [roots  |-> [product |-> product, metadata |-> metadata, advisory |-> advisory,
               card |-> Gone],
   prints |-> [record |-> record, report |-> report, crosslink |-> 1]]

MCEnds ==
  [record    |-> [root |-> "product", link |-> "metadata"],
   report    |-> [root |-> "product", link |-> "advisory"],
   crosslink |-> [root |-> "card", link |-> "metadata"]]

\* The first import; a changed text, tag, assertion; the report withdrawn; the record
\* gone while the report still names it.
Import     == Bundle(Want(1, 1), Want(1, 1), Want(1, 1), 1, 1)
Reworded   == Bundle(Want(1, 1), Want(1, 2), Want(1, 1), 1, 1)
Retagged   == Bundle(Want(1, 1), Want(2, 1), Want(1, 1), 1, 1)
Reasserted == Bundle(Want(2, 2), Want(2, 1), Want(1, 1), 2, 1)
Withdrawn  == Bundle(Want(1, 1), Want(1, 1), Gone, 1, Gone)
Emptied    == Bundle(Gone, Gone, Want(1, 1), Gone, 1)

MCDataset == {Import, Reworded, Retagged, Reasserted, Withdrawn, Emptied}
=============================================================================
