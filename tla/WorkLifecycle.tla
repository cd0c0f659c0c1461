---------------------------- MODULE WorkLifecycle ----------------------------
(***************************************************************************)
(* What the component promises a Codec2 client about its works, whatever   *)
(* runs underneath: works are taken in the order they were queued, each    *)
(* one leaves the component exactly once, finished, failed or flushed, and *)
(* after an error or an end of stream the component takes no further work  *)
(* until it is reset.  EncoderComponent and DecoderComponent implement it. *)
(***************************************************************************)
EXTENDS Naturals

CONSTANT MaxWorks
VARIABLES work,   \* what has become of each work
          closed  \* the component refuses work until a reset
vars == <<work, closed>>

Works == 1 .. MaxWorks

Init == work = [w \in Works |-> "new"] /\ closed = FALSE

\* The works are queued in order.
IsNext(w) == work[w] = "new" /\ \A v \in 1 .. (w - 1) : work[v] # "new"

Becomes(w, result) == work' = [work EXCEPT ![w] = result]

\* process() leaves the work pending, or finishes it; a finished work may carry
\* the end of the stream.
Take(w) ==
    /\ IsNext(w) /\ ~closed
    /\ \/ Becomes(w, "pending") /\ UNCHANGED closed
       \/ Becomes(w, "finished") /\ closed' \in BOOLEAN

\* process() fails: the component is closed from then on.
Fail(w) == IsNext(w) /\ Becomes(w, "failed") /\ closed' = TRUE

\* An output is published for a pending work.
Finish(w) == work[w] = "pending" /\ Becomes(w, "finished") /\ UNCHANGED closed

\* A flush or a stop returns every pending work; a flush that fails does not
\* open the component again.
Reset ==
    /\ work' = [w \in Works |-> IF work[w] = "pending" THEN "flushed" ELSE work[w]]
    /\ closed' \in {closed, FALSE}

Next == (\E w \in Works : Take(w) \/ Fail(w) \/ Finish(w)) \/ Reset

Spec == Init /\ [][Next]_vars
=============================================================================
