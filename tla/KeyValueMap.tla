---------------------------- MODULE KeyValueMap ----------------------------
(***************************************************************************)
(* What a concurrent map promises: every operation takes effect at one     *)
(* instant between its call and its return, and returns the value its key  *)
(* had at that instant.  insert changes a key that is absent, remove one   *)
(* that is present.                                                        *)
(***************************************************************************)
CONSTANTS Thread, Key, Val, None

Request == [op : {"insert"}, key : Key, val : Val]
             \cup [op : {"get", "remove"}, key : Key, val : {None}]

VARIABLES
    content,  \* the value of every key, None when absent
    status,   \* of a thread: idle, called or applied
    request,  \* what it has called
    ret       \* what the call returns

Init ==
    /\ content = [k \in Key |-> None]
    /\ status = [t \in Thread |-> "idle"]
    /\ request \in [Thread -> Request]
    /\ ret = [t \in Thread |-> None]

Call(t, r) ==
    /\ status[t] = "idle"
    /\ status' = [status EXCEPT ![t] = "called"]
    /\ request' = [request EXCEPT ![t] = r]
    /\ UNCHANGED <<content, ret>>

NewValue(r) == IF r.op = "remove" THEN None
               ELSE IF r.op = "insert" /\ content[r.key] = None THEN r.val
               ELSE content[r.key]

Apply(t) ==
    /\ status[t] = "called"
    /\ status' = [status EXCEPT ![t] = "applied"]
    /\ ret' = [ret EXCEPT ![t] = content[request[t].key]]
    /\ content' = [content EXCEPT ![request[t].key] = NewValue(request[t])]
    /\ UNCHANGED request

Return(t) ==
    /\ status[t] = "applied"
    /\ status' = [status EXCEPT ![t] = "idle"]
    /\ UNCHANGED <<content, request, ret>>

Next == \E t \in Thread : (\E r \in Request : Call(t, r)) \/ Apply(t) \/ Return(t)

Spec == Init /\ [][Next]_<<content, status, request, ret>>
=============================================================================
