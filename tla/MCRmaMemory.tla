---------------------------- MODULE MCRmaMemory -----------------------------
(* Workloads for model checking RmaMemory. *)
EXTENDS RmaMemory, TLC

CONSTANTS p1, p2

\* Two adjacent buffers of different sizes.
MCBuffers == {[buf |-> 0, buf_size |-> 2], [buf |-> 2, buf_size |-> 1]}

\* Handles are created, passed on and freed around one put at each side.
Handles == [handles |-> p1 :> 2 @@ p2 :> 1, frees |-> p1 :> 1 @@ p2 :> 1,
            ops |-> p1 :> 0 @@ p2 :> 1, types |-> {"put"},
            spans |-> {<<1, 0, 2>>, <<3, 0, 1>>}]

\* A put, a get of what it wrote, and another of each.
Data == [handles |-> p1 :> 1 @@ p2 :> 1, frees |-> p1 :> 0 @@ p2 :> 0,
         ops |-> p1 :> 0 @@ p2 :> 3, types |-> {"put", "get", "cancel"},
         spans |-> {<<0, 1, 2>>}]

\* Gets in both directions that fill the streams.
Full == [handles |-> p1 :> 1 @@ p2 :> 1, frees |-> p1 :> 0 @@ p2 :> 0,
         ops |-> p1 :> 2 @@ p2 :> 3, types |-> {"get"}, spans |-> {<<0, 0, 1>>}]

\* A process that reads into its own memory while the other puts to it.
Both == [handles |-> p1 :> 1 @@ p2 :> 1, frees |-> p1 :> 0 @@ p2 :> 0,
         ops |-> p1 :> 1 @@ p2 :> 2, types |-> {"put", "get"}, spans |-> {<<0, 0, 2>>}]

MCWorkloads == {Handles, Data, Full, Both}
=============================================================================
