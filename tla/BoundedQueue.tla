---------------------------- MODULE BoundedQueue ----------------------------
(***************************************************************************)
(* What the header of seq_queue.c promises of its queues, as one atomic    *)
(* step between the call and the return of every operation: a FIFO of at   *)
(* most Capacity elements, where a put to a full queue overwrites the      *)
(* youngest element and says so, and a get takes the oldest element or     *)
(* says that there is none.                                                *)
(* The last point is what the code keeps of the header's promise: a get    *)
(* during which a put runs may also say that the queue is empty when it is *)
(* not (GetNothing).                                                       *)
(***************************************************************************)
EXTENDS Naturals, Sequences

CONSTANTS Capacity,   \* numElems
          Readers,    \* threads that get and flush
          Writers,    \* threads that put
          Values,     \* the elements
          Nothing     \* not an element: what a get of an empty queue yields

VARIABLES queue,  \* the elements, oldest first
          call,   \* per thread: "idle", or the operation called but not yet
                  \* carried out, or "done"
          item,   \* per thread: the element of its current call
          lost,   \* per writer: its last put overwrote an element
          overlap \* per reader: a put ran during its call

vars == <<queue, call, item, lost, overlap>>

Threads == Readers \cup Writers

Init == /\ queue = << >>
        /\ call = [t \in Threads |-> "idle"]
        /\ item = [t \in Threads |-> Nothing]
        /\ lost = [w \in Writers |-> FALSE]
        /\ overlap = [r \in Readers |-> FALSE]

Begin(t, op, v) == /\ call[t] = "idle"
                   /\ call' = [call EXCEPT ![t] = op]
                   /\ item' = [item EXCEPT ![t] = v]
                   /\ overlap' = [u \in Readers |->
                                     IF t = u THEN \E w \in Writers : call[w] # "idle"
                                     ELSE overlap[u] \/ (t \in Writers /\ call[u] # "idle")]
                   /\ lost' = IF t \in Writers THEN [lost EXCEPT ![t] = FALSE] ELSE lost
                   /\ UNCHANGED queue

Put(w) == /\ call[w] = "put"
          /\ call' = [call EXCEPT ![w] = "done"]
          /\ lost' = [lost EXCEPT ![w] = Len(queue) = Capacity]
          /\ queue' = IF Len(queue) < Capacity
                      THEN Append(queue, item[w])
                      ELSE [queue EXCEPT ![Capacity] = item[w]]
          /\ UNCHANGED <<item, overlap>>

Taken(r, result) == /\ call' = [call EXCEPT ![r] = "done"]
                    /\ item' = [item EXCEPT ![r] = result]
                    /\ UNCHANGED <<lost, overlap>>

Get(r) == /\ call[r] = "get"
          /\ queue # << >>
          /\ queue' = Tail(queue)
          /\ Taken(r, Head(queue))

GetNothing(r) == /\ call[r] = "get"
                 /\ queue = << >> \/ overlap[r]
                 /\ Taken(r, Nothing)
                 /\ UNCHANGED queue

Flush(r) == /\ call[r] = "flush"
            /\ queue' = << >>
            /\ Taken(r, Nothing)

Return(t) == /\ call[t] = "done"
             /\ call' = [call EXCEPT ![t] = "idle"]
             /\ item' = [item EXCEPT ![t] = Nothing]
             /\ UNCHANGED <<queue, lost, overlap>>

Next == \/ \E w \in Writers : \/ \E v \in Values : Begin(w, "put", v)
                              \/ Put(w)
                              \/ Return(w)
        \/ \E r \in Readers : \/ Begin(r, "get", Nothing) \/ Begin(r, "flush", Nothing)
                              \/ Get(r) \/ GetNothing(r) \/ Flush(r)
                              \/ Return(r)

Spec == Init /\ [][Next]_vars
=============================================================================
