---------------------------- MODULE MCNodeGraph ----------------------------
(* NodeGraph for TLC: the flows that the runs deploy.                        *)
EXTENDS NodeGraph, TLC

CONSTANTS c1, c2, m1, m2, m3, m4, s1

\* A camera, two models in a row, and a stream that watches the camera and the
\* first model: a diamond.  Every deployment uses the same flow.
Flow == (c1 :> {{}}) @@ (c2 :> {{}}) @@ (m1 :> {{c1}}) @@ (m2 :> {{m1}}) @@ (s1 :> {{c1, m1}})

\* Flows that differ from one deployment to the next.
Flows == [x \in Ids |-> ((c1 :> {{}}) @@ (c2 :> {{}}) @@ (m1 :> {{c1}, {c2}}) @@ (m2 :> {{c1}, {m1}})
         @@ (s1 :> {{c1}, {m1, c2}}))[x]]

\* Models side by side or behind one another.
Chains == (c1 :> {{}}) @@ (m1 :> {{c1}}) @@ (m2 :> {{c1}, {m1}})
          @@ (m3 :> {{c1}, {m2}}) @@ (m4 :> {{c1}, {m3}})

\* At most one onStart fails in an operation.
OneFailure == {{}} \cup {{x} : x \in Ids}
NoFailure == {{}}
=============================================================================
