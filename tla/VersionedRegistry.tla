------------------------- MODULE VersionedRegistry -------------------------
(***************************************************************************)
(* What the model registry promises its callers (README.md: "ml_fit stores *)
(* an immutable version"; "ml_predict ... resolve the latest model version *)
(* by default ... version > 0 resolves that exact stored version";         *)
(* "ml_models returns all rows currently persisted").                      *)
(*                                                                         *)
(* The registry is one append-only log per model name; version i of a name *)
(* is the i-th entry of its log.  A call takes effect at one instant       *)
(* between its invocation and its answer.  It may also fail, before or     *)
(* after that instant: a failed fit may or may not have published.         *)
(***************************************************************************)
EXTENDS Naturals, Sequences

CONSTANTS
    Clients,    \* callers of the registry
    Names,      \* model names
    Payloads,   \* model blobs
    Versions    \* version numbers a lookup may ask for; 0 means latest

VARIABLES
    log,        \* log[n]: the blobs published under name n, in version order
    call        \* call[c]: [status, request, answer] of the call c has open

vars == <<log, call>>

Row(n, v, b) == [name |-> n, version |-> v, blob |-> b]

AllRows == UNION {{Row(n, v, log[n][v]) : v \in DOMAIN log[n]} : n \in Names}

Idle == [status |-> "idle"]

Open(request) == [status |-> "open", request |-> request]

Decided(request, answer) ==
    [status |-> "decided", request |-> request, answer |-> answer]

Failed == [status |-> "failed"]

Init ==
    /\ log = [n \in Names |-> <<>>]
    /\ call = [c \in Clients |-> Idle]

Invoke(c) ==
    /\ call[c] = Idle
    /\ \/ \E n \in Names, b \in Payloads :
              call' = [call EXCEPT ![c] = Open(<<"insert", n, b>>)]
       \/ \E n \in Names, v \in Versions :
              call' = [call EXCEPT ![c] = Open(<<"lookup", n, v>>)]
       \/ call' = [call EXCEPT ![c] = Open(<<"list">>)]
    /\ UNCHANGED log

(* The fit gets the version right after the last one of its name. *)
Publish(c) ==
    \E n \in Names, b \in Payloads :
        /\ call[c] = Open(<<"insert", n, b>>)
        /\ log' = [log EXCEPT ![n] = Append(@, b)]
        /\ call' = [call EXCEPT ![c] =
                       Decided(@.request, {Row(n, Len(log[n]) + 1, b)})]

(* Version 0 asks for the latest; an empty answer is "no such model". *)
Resolve(c) ==
    \E n \in Names :
        /\ call[c].status = "open"
        /\ call[c].request[1] = "lookup"
        /\ call[c].request[2] = n
        /\ LET asked == call[c].request[3]
               found == IF asked = 0 THEN Len(log[n]) ELSE asked
           IN  call' = [call EXCEPT ![c] =
                   Decided(@.request, {r \in AllRows : r.name = n /\ r.version = found})]
        /\ UNCHANGED log

ListAll(c) ==
    /\ call[c] = Open(<<"list">>)
    /\ call' = [call EXCEPT ![c] = Decided(@.request, AllRows)]
    /\ UNCHANGED log

Fail(c) ==
    /\ call[c].status \in {"open", "decided"}
    /\ call' = [call EXCEPT ![c] = Failed]
    /\ UNCHANGED log

(* The answer or the error reaches the caller; a caller that dies never gets one. *)
Finish(c) ==
    /\ call[c] # Idle
    /\ call' = [call EXCEPT ![c] = Idle]
    /\ UNCHANGED log

Next ==
    \E c \in Clients :
        Invoke(c) \/ Publish(c) \/ Resolve(c) \/ ListAll(c) \/ Fail(c) \/ Finish(c)

Spec == Init /\ [][Next]_vars

=============================================================================
