-------------------------- MODULE VerifySaleProofs --------------------------
(***************************************************************************)
(* Theorems about VerifySale, for any number of requests and transactions, *)
(* any configuration and any faults.                                       *)
(***************************************************************************)
EXTENDS VerifySale, FiniteSetTheorems, TLAPS

\* A post that Fetch has found on chain
Paid(p) == LET tx == OnChain[p.txhash] IN tx.code = 0 /\ Matches(p, tx)

\* The transactions some request has tried to pass on
Forwarded == {tx \in Tx : HooksFor(tx) # {}}

\* What is known of a request where it is; and a post is made by a request
\* whose payload is fixed, for a transaction found on chain.
RequestsOK ==
    /\ \A r \in Request :
          /\ step[r] # "answered" => status[r] = None
          /\ step[r] \in {"load", "fetch", "webhook", "save", "write"} =>
                payload[r] \in PayloadInput /\ payload[r].txhash \in Tx
          /\ step[r] \in {"webhook", "save", "write"} => Paid(payload[r])
    /\ \A h \in hooks : /\ step[h.by] # "idle"
                        /\ payload[h.by].txhash \in Tx /\ Paid(payload[h.by])

\* With a webhook configured, nothing is in the file, in a process's copy of
\* it, about to be put there, or held against a client, but what was posted.
StoreOK ==
    /\ Entries \subseteq Forwarded
    /\ \A r \in Request :
          /\ processed[r] \subseteq Forwarded
          /\ step[r] \in {"save", "write"} => payload[r].txhash \in Forwarded
          /\ status[r] = 409 => payload[r].txhash \in Forwarded

\* Posts are only ever added, and by requests whose payload is fixed, so that a
\* transaction once posted stays posted.
LEMMA ForwardedStays ==
    ASSUME hooks \subseteq hooks',
           \A h \in hooks : payload'[h.by] = payload[h.by]
    PROVE  Forwarded \subseteq Forwarded'
  BY DEF Forwarded, HooksFor

\* Arrival fixes the payload of an idle request and touches no other.
LEMMA ArriveKeeps ==
    ASSUME TypeOK, RequestsOK, NEW r \in Request, NEW p \in PayloadInput, Arrive(r, p)
    PROVE  TypeOK' /\ RequestsOK' /\ (StoreOK => StoreOK')
<1>1. /\ step[r] = "idle"
      /\ payload' = [payload EXCEPT ![r] = p]
      /\ \/ WellFormed(p) /\ step' = [step EXCEPT ![r] = "load"] /\ status' = status
         \/ step' = [step EXCEPT ![r] = "answered"] /\ status' = [status EXCEPT ![r] = 400]
      /\ UNCHANGED <<processed, store, hooks>>
  BY DEF Arrive, GoTo, Answer
<1>0. orderly' \in BOOLEAN
  BY DEF Arrive, Orderly, TypeOK
<1>2. WellFormed(p) => p.txhash \in Tx
  BY VerifySaleAssumption DEF WellFormed, Payload
<1>3. \A h \in hooks : h.by # r /\ h.by \in Request /\ payload'[h.by] = payload[h.by]
  BY <1>1 DEF RequestsOK, TypeOK
<1>4. TypeOK'
  BY <1>0, <1>1 DEF TypeOK, Steps
<1>5. RequestsOK'
  BY <1>1, <1>2, <1>3 DEF RequestsOK, TypeOK
<1>6. ASSUME StoreOK PROVE StoreOK'
  <2>1. Forwarded \subseteq Forwarded'
    BY <1>1, <1>3, ForwardedStays
  <2>2. status'[r] # 409
    BY <1>1, VerifySaleAssumption DEF RequestsOK, TypeOK
  <2>3. \A q \in Request \ {r} :
           step'[q] = step[q] /\ status'[q] = status[q] /\ payload'[q] = payload[q]
    BY <1>1 DEF TypeOK
  <2>4. step'[r] \notin {"save", "write"}
    BY <1>1 DEF TypeOK
  <2> QED BY <1>1, <1>6, <2>1, <2>2, <2>3, <2>4 DEF StoreOK, Entries
<1> QED BY <1>4, <1>5, <1>6

\* Any other step moves one request `r` and leaves the payloads alone; what it
\* posts must be on chain.
LEMMA MoveKeeps ==
    ASSUME TypeOK, RequestsOK, NEW r \in Request,
           step[r] \in {"load", "fetch", "webhook", "save", "write"},
           NEW where \in Steps \ {"idle", "load"}, step' = [step EXCEPT ![r] = where],
           \/ where # "answered" /\ status' = status
           \/ where = "answered" /\ \E code \in Nat : status' = [status EXCEPT ![r] = code],
           payload' = payload,
           where \in {"webhook", "save", "write"} => Paid(payload[r]),
           hooks \subseteq hooks', \A h \in hooks' : h \in hooks \/ (h.by = r /\ Paid(payload[r]))
    PROVE  RequestsOK' /\ Forwarded \subseteq Forwarded'
<1>1. payload[r] \in PayloadInput /\ payload[r].txhash \in Tx /\ where # "idle"
  BY DEF RequestsOK
<1>2. Forwarded \subseteq Forwarded'
  BY ForwardedStays
<1>3. \A q \in Request : step'[q] = IF q = r THEN where ELSE step[q]
  BY DEF TypeOK
<1>4. \A q \in Request \ {r} : status'[q] = status[q]
  BY DEF TypeOK
<1>5. where # "answered" => status'[r] = None
  BY DEF RequestsOK
<1>6. \A h \in hooks' : step'[h.by] # "idle" /\ payload[h.by].txhash \in Tx /\ Paid(payload[h.by])
  <2>1. \A h \in hooks : h.by \in Request
    BY DEF TypeOK
  <2> QED BY <1>1, <1>3, <2>1 DEF RequestsOK
<1>7. RequestsOK'
  BY <1>1, <1>3, <1>4, <1>5, <1>6 DEF RequestsOK
<1> QED BY <1>2, <1>7

\* Every step a process takes, or its death, keeps the types and RequestsOK; and
\* StoreOK, if there is a webhook to post to.
LEMMA StepKeeps ==
    ASSUME TypeOK, RequestsOK, NEW r \in Request, Serve(r) \/ Crash(r)
    PROVE  TypeOK' /\ RequestsOK' /\ (StoreOK /\ WebhookConfigured => StoreOK')
<1> DEFINE p == payload[r]
           \* what StoreOK' needs of the request that moves
           Right == /\ Entries' \subseteq Forwarded' /\ processed'[r] \subseteq Forwarded'
                    /\ step'[r] \in {"save", "write"} => p.txhash \in Forwarded'
                    /\ status'[r] = 409 => p.txhash \in Forwarded'
<1>0. step[r] \in {"load", "fetch", "webhook", "save", "write"} => p.txhash \in Tx
  BY DEF RequestsOK
<1>1. ASSUME StoreOK, Forwarded \subseteq Forwarded', Right, payload' = payload,
             \A q \in Request \ {r} : /\ processed'[q] = processed[q]
                                      /\ step'[q] = step[q] /\ status'[q] = status[q]
      PROVE  StoreOK'
  BY <1>1 DEF StoreOK
<1>9. orderly' \in BOOLEAN
  BY DEF Serve, Load, LoadFails, Fetch, FetchFails, PostWebhook, SaveTruncates, SaveFails,
         SaveWrites, WriteFails, Crash, Orderly, TypeOK
<1>2. CASE Load(r) \/ LoadFails(r)
  <2>1. /\ step[r] = "load"
        /\ \E found \in {Entries, {}} : processed' = [processed EXCEPT ![r] = found]
        /\ \/ /\ p.txhash \in Entries
              /\ step' = [step EXCEPT ![r] = "answered"] /\ status' = [status EXCEPT ![r] = 409]
           \/ step' = [step EXCEPT ![r] = "fetch"] /\ status' = status
        /\ UNCHANGED <<payload, store, hooks>>
    BY <1>2 DEF Load, LoadFails, GoTo, Answer
  <2>2. TypeOK'
    <3>1. Entries \subseteq Tx
      BY DEF Entries, TypeOK
    <3> QED BY <1>9, <2>1, <3>1 DEF TypeOK, Steps
  <2>3. RequestsOK' /\ Forwarded \subseteq Forwarded'
    BY <2>1, MoveKeeps DEF Steps
  <2>4. ASSUME StoreOK PROVE StoreOK'
    <3>1. Right
      <4>1. status'[r] = 409 => p.txhash \in Entries \/ status[r] = 409
        BY <2>1 DEF TypeOK
      <4>2. processed'[r] \subseteq Entries /\ Entries' = Entries /\ step'[r] \notin {"save", "write"}
        BY <2>1 DEF TypeOK, Entries
      <4> QED BY <2>1, <2>3, <2>4, <4>1, <4>2 DEF StoreOK
    <3> QED BY <1>1, <2>1, <2>3, <2>4, <3>1 DEF TypeOK
  <2> QED BY <2>2, <2>3, <2>4
<1>3. CASE Fetch(r) \/ FetchFails(r)
  <2>1. /\ step[r] = "fetch"
        /\ \/ Paid(p) /\ step' = [step EXCEPT ![r] = "webhook"] /\ status' = status
           \/ \E code \in {422, 502} :
                 step' = [step EXCEPT ![r] = "answered"] /\ status' = [status EXCEPT ![r] = code]
        /\ UNCHANGED <<payload, processed, store, hooks>>
    BY <1>3 DEF Fetch, FetchFails, GoTo, Answer, Paid
  <2>2. TypeOK'
    BY <1>9, <2>1 DEF TypeOK, Steps
  <2>3. RequestsOK' /\ Forwarded \subseteq Forwarded'
    BY <2>1, MoveKeeps DEF Steps
  <2>4. ASSUME StoreOK PROVE StoreOK'
    <3>1. step'[r] \notin {"save", "write"} /\ (status'[r] = 409 => status[r] = 409)
      BY <2>1 DEF TypeOK
    <3>2. Right
      BY <2>1, <2>3, <2>4, <3>1 DEF StoreOK, Entries
    <3> QED BY <1>1, <2>1, <2>3, <2>4, <3>2 DEF TypeOK
  <2> QED BY <2>2, <2>3, <2>4
<1>4. CASE PostWebhook(r)
  <2>1. /\ step[r] = "webhook"
        /\ step' = [step EXCEPT ![r] = "save"]
        /\ UNCHANGED <<payload, processed, store, status>>
    BY <1>4 DEF PostWebhook, GoTo
  <2>2. /\ hooks \subseteq hooks'
        /\ \A h \in hooks' : \/ h \in hooks
                             \/ h.by = r /\ h \in [by : Request, answer : AnswerInput]
        /\ WebhookConfigured => \E h \in hooks' : h.by = r
    <3>1. CASE WebhookConfigured
      <4>1. PICK a \in AnswerInput : hooks' = hooks \cup {[by |-> r, answer |-> a]}
        BY <1>4, <3>1 DEF PostWebhook
      <4> DEFINE post == [by |-> r, answer |-> a]
      <4>2. post.by = r /\ post \in [by : Request, answer : AnswerInput]
        OBVIOUS
      <4> HIDE DEF post
      <4>3. hooks' = hooks \cup {post}
        BY <4>1 DEF post
      <4> QED BY <4>2, <4>3
    <3>2. CASE ~WebhookConfigured
      BY <1>4, <3>2 DEF PostWebhook
    <3> QED BY <3>1, <3>2
  <2>3. TypeOK'
    BY <1>9, <2>1, <2>2 DEF TypeOK, Steps
  <2>4. Paid(p)
    BY <2>1 DEF RequestsOK
  <2>5. RequestsOK' /\ Forwarded \subseteq Forwarded'
    BY <2>1, <2>2, <2>4, MoveKeeps DEF Steps
  <2>6. ASSUME StoreOK, WebhookConfigured PROVE StoreOK'
    <3>1. p.txhash \in Forwarded'
      BY <1>0, <2>1, <2>2, <2>6 DEF Forwarded, HooksFor
    <3>2. Right
      BY <2>1, <2>5, <2>6, <3>1 DEF StoreOK, Entries
    <3> QED BY <1>1, <2>1, <2>5, <2>6, <3>2 DEF TypeOK
  <2> QED BY <2>3, <2>5, <2>6
<1>5. CASE SaveTruncates(r) \/ SaveFails(r)
  <2>1. /\ step[r] = "save"
        /\ processed' = [processed EXCEPT ![r] = processed[r] \cup {p.txhash}]
        /\ \/ step' = [step EXCEPT ![r] = "write"] /\ status' = status
           \/ step' = [step EXCEPT ![r] = "answered"] /\ status' = [status EXCEPT ![r] = 200]
        /\ store' \in {store, {}}
        /\ UNCHANGED <<payload, hooks>>
    BY <1>5 DEF SaveTruncates, SaveFails, GoTo, Answer
  <2>2. TypeOK'
    BY <1>0, <1>9, <2>1 DEF TypeOK, Steps
  <2>3. RequestsOK' /\ Forwarded \subseteq Forwarded'
    <3>1. Paid(p)
      BY <2>1 DEF RequestsOK
    <3> QED BY <2>1, <3>1, MoveKeeps DEF Steps
  <2>4. ASSUME StoreOK PROVE StoreOK'
    <3>1. p.txhash \in Forwarded
      BY <2>1, <2>4 DEF StoreOK
    <3>2. Right
      BY <2>1, <2>3, <2>4, <3>1 DEF StoreOK, TypeOK, Entries
    <3> QED BY <1>1, <2>1, <2>3, <2>4, <3>2 DEF TypeOK
  <2> QED BY <2>2, <2>3, <2>4
<1>6. CASE SaveWrites(r) \/ WriteFails(r)
  <2>1. /\ step[r] = "write"
        /\ store' \in {processed[r], store, Invalid}
        /\ step' = [step EXCEPT ![r] = "answered"] /\ status' = [status EXCEPT ![r] = 200]
        /\ UNCHANGED <<payload, processed, hooks>>
    BY <1>6 DEF SaveWrites, WriteFails, Answer
  <2>2. TypeOK'
    BY <1>9, <2>1 DEF TypeOK, Steps
  <2>3. RequestsOK' /\ Forwarded \subseteq Forwarded'
    BY <2>1, MoveKeeps DEF Steps
  <2>4. ASSUME StoreOK PROVE StoreOK'
    <3>1. step'[r] = "answered" /\ status'[r] = 200
      BY <2>1 DEF TypeOK
    <3>2. Right
      BY <2>1, <2>3, <2>4, <3>1 DEF StoreOK, Entries
    <3> QED BY <1>1, <2>1, <2>3, <2>4, <3>2 DEF TypeOK
  <2> QED BY <2>2, <2>3, <2>4
<1>7. CASE Crash(r)
  <2>1. /\ step[r] \notin {"idle", "answered", "crashed"}
        /\ step' = [step EXCEPT ![r] = "crashed"]
        /\ UNCHANGED <<payload, processed, status, store, hooks>>
    BY <1>7 DEF Crash, Active, GoTo
  <2>2. TypeOK'
    BY <1>9, <2>1 DEF TypeOK, Steps
  <2>3. RequestsOK' /\ Forwarded \subseteq Forwarded'
    <3>1. step[r] \in {"load", "fetch", "webhook", "save", "write"}
      BY <1>9, <2>1 DEF TypeOK, Steps
    <3> QED BY <2>1, <3>1, MoveKeeps DEF Steps
  <2>4. ASSUME StoreOK PROVE StoreOK'
    <3>1. step'[r] = "crashed"
      BY <2>1 DEF TypeOK
    <3>2. Right
      BY <2>1, <2>3, <2>4, <3>1 DEF StoreOK, Entries
    <3> QED BY <1>1, <2>1, <2>3, <2>4, <3>2 DEF TypeOK
  <2> QED BY <2>2, <2>3, <2>4
<1> QED BY <1>2, <1>3, <1>4, <1>5, <1>6, <1>7 DEF Serve

-----------------------------------------------------------------------------
\* TypeOK and RequestsOK are inductive together.
LEMMA RequestsInvariant == Spec => [](TypeOK /\ RequestsOK)
<1>1. Init => TypeOK /\ RequestsOK
  BY DEF Init, TypeOK, RequestsOK, Steps
<1>2. TypeOK /\ RequestsOK /\ [Next]_vars => TypeOK' /\ RequestsOK'
  <2>1. TypeOK /\ RequestsOK /\ UNCHANGED vars => TypeOK' /\ RequestsOK'
    BY DEF vars, TypeOK, RequestsOK
  <2> QED BY <2>1, ArriveKeeps, StepKeeps DEF Next
<1> QED BY <1>1, <1>2, PTL DEF Spec

\* Every reachable state is well typed: requests are where a process can be,
\* and the file holds transaction hashes only.
THEOREM EndpointTypeCorrect == Spec => []TypeOK
  BY RequestsInvariant, PTL

\* Only a payment that succeeded on chain, in the claimed amount, is passed on,
\* whatever requests and faults overlap.
THEOREM OnlyPaymentsEverForwarded == Spec => []OnlyPaymentsForwarded
<1>1. RequestsOK => OnlyPaymentsForwarded
  BY DEF RequestsOK, OnlyPaymentsForwarded, Paid, Matches
<1> QED BY <1>1, RequestsInvariant, PTL

\* With a webhook configured, a client is turned away as a duplicate only for a
\* payment some request did try to pass on.
THEOREM DuplicatesWereForwarded ==
    ASSUME WebhookConfigured
    PROVE  Spec => []DuplicateWasForwarded
<1>1. Init => StoreOK
  BY VerifySaleAssumption DEF Init, StoreOK, Entries
<1>2. TypeOK /\ RequestsOK /\ StoreOK /\ [Next]_vars => StoreOK'
  <2>1. StoreOK /\ UNCHANGED vars => StoreOK'
    BY DEF vars, StoreOK, Entries, Forwarded, HooksFor
  <2> QED BY <2>1, ArriveKeeps, StepKeeps DEF Next
<1>3. StoreOK => DuplicateWasForwarded
  BY DEF StoreOK, DuplicateWasForwarded, Forwarded
<1> QED BY <1>1, <1>2, <1>3, RequestsInvariant, PTL DEF Spec

-----------------------------------------------------------------------------
(* In good order.                                                          *)

Busy == {"load", "fetch", "webhook", "save", "write"}

\* How far the request has brought the store, which from the truncation to the
\* write is only in the process's own copy
Progress(r) ==
    /\ step[r] \in {"fetch", "webhook"} =>
          Forwarded \subseteq processed[r] /\ payload[r].txhash \notin Forwarded
    /\ step[r] = "save" => Forwarded \subseteq processed[r] \cup {payload[r].txhash}
    /\ step[r] = "write" => Forwarded \subseteq processed[r] /\ store = {}

\* One request at a time, one post for a transaction, and every post on record
Serial ==
    /\ \A r, q \in Request : step[r] \in Busy /\ step[q] \in Busy => r = q
    /\ \A h, g \in hooks : payload[h.by].txhash = payload[g.by].txhash => h = g
    /\ (\A r \in Request : step[r] \notin {"save", "write"}) => Forwarded \subseteq Entries
    /\ \A r \in Request : Progress(r)

\* The invariant behind FiredOnceInOrder
OrderInv == BlockDuplicates /\ orderly => Serial

\* A step of the one request `r` that is being served keeps the invariant if it
\* does so for that request.
LEMMA SerialIfOwn ==
    ASSUME NEW r \in Request, \A q \in Request \ {r} : step'[q] \notin Busy,
           \A h, g \in hooks' : payload'[h.by].txhash = payload'[g.by].txhash => h = g,
           step'[r] \notin {"save", "write"} => Forwarded' \subseteq Entries',
           Progress(r)'
    PROVE  Serial'
<1>1. \A q \in Request \ {r} : Progress(q)'
  BY DEF Progress, Busy
<1>2. \A p, q \in Request : step'[p] \in Busy /\ step'[q] \in Busy => p = q
  OBVIOUS
<1> QED BY <1>1, <1>2 DEF Serial

\* In good order a request is let in only when no other is being served.
LEMMA SerialArrive ==
    ASSUME TypeOK, RequestsOK, Serial, orderly',
           NEW r \in Request, NEW p \in PayloadInput, Arrive(r, p)
    PROVE  Serial'
<1>1. /\ hooks' = hooks /\ store' = store /\ processed' = processed /\ step[r] = "idle"
      /\ \A q \in Request \ {r} : step'[q] = step[q] /\ payload'[q] = payload[q]
      /\ step'[r] = IF WellFormed(p) THEN "load" ELSE "answered"
      /\ WellFormed(p) => Active = {}
  <2>1. /\ hooks' = hooks /\ store' = store /\ processed' = processed /\ step[r] = "idle"
        /\ payload' = [payload EXCEPT ![r] = p]
        /\ step' = [step EXCEPT ![r] = IF WellFormed(p) THEN "load" ELSE "answered"]
    BY DEF Arrive, GoTo, Answer
  <2>2. WellFormed(p) => Active = {}
    BY DEF Arrive, Orderly
  <2>3. step \in [Request -> Steps] /\ payload \in [Request -> PayloadInput \cup {None}]
    BY DEF TypeOK
  <2> QED BY <2>1, <2>2, <2>3
<1>2. \A h \in hooks : payload'[h.by] = payload[h.by]
  BY DEF RequestsOK, TypeOK, Arrive
<1>3. Forwarded' = Forwarded /\ Entries' = Entries
  BY <1>1, <1>2 DEF Forwarded, HooksFor, Entries
<1>4. \A h, g \in hooks' : payload'[h.by].txhash = payload'[g.by].txhash => h = g
  BY <1>1, <1>2 DEF Serial
<1>5. CASE WellFormed(p)
  <2>1. \A q \in Request : step[q] \notin Busy
    BY <1>1, <1>5 DEF Active, Busy
  <2>2. Forwarded \subseteq Entries
    BY <2>1 DEF Serial, Busy
  <2>3. Progress(r)'
    BY <1>1, <1>5 DEF Progress
  <2> QED BY <1>1, <1>3, <1>4, <2>1, <2>2, <2>3, SerialIfOwn
<1>6. CASE ~WellFormed(p)
  <2>1. \A q \in Request : Progress(q)'
    BY <1>1, <1>3, <1>6 DEF Progress, Serial
  <2>2. \A q \in Request : step'[q] \in Busy => step[q] \in Busy
    BY <1>1, <1>6 DEF Busy
  <2>3. (\A q \in Request : step'[q] \notin {"save", "write"}) =>
           \A q \in Request : step[q] \notin {"save", "write"}
    BY <1>1
  <2> QED BY <1>3, <1>4, <2>1, <2>2, <2>3 DEF Serial
<1> QED BY <1>5, <1>6

\* The request that is being served posts a transaction only if the store has
\* none of that hash, and has it in the store when it is done.  It may also die
\* before it has posted anything.
LEMMA SerialServe ==
    ASSUME BlockDuplicates, TypeOK, RequestsOK, Serial, orderly',
           NEW r \in Request, Serve(r) \/ Crash(r)
    PROVE  Serial'
<1> DEFINE tx == payload[r].txhash
<1>0. step[r] \in Busy /\ payload' = payload
  <2>1. CASE Serve(r)
    BY <2>1 DEF Serve, Load, LoadFails, Fetch, FetchFails, PostWebhook, SaveTruncates, SaveFails,
                SaveWrites, WriteFails, Busy
  <2>2. CASE Crash(r)
    BY <2>2 DEF Crash, Active, TypeOK, Steps, Busy
  <2> QED BY <2>1, <2>2
<1>1. /\ \A q \in Request \ {r} : step[q] \notin Busy
      /\ step[r] \notin {"save", "write"} => Forwarded \subseteq Entries
      /\ Progress(r) /\ tx \in Tx
  <2>1. \A q \in Request \ {r} : step[q] \notin Busy
    BY <1>0 DEF Serial
  <2>2. tx \in Tx
    BY <1>0 DEF RequestsOK, Busy
  <2> QED BY <2>1, <2>2 DEF Serial, Busy
<1>12. \E where \in Steps : step' = [step EXCEPT ![r] = where]
  <2>1. CASE Serve(r)
    BY <2>1 DEF Serve, Load, LoadFails, Fetch, FetchFails, PostWebhook, SaveTruncates, SaveFails,
                SaveWrites, WriteFails, GoTo, Answer, Steps
  <2>2. CASE Crash(r)
    BY <2>2 DEF Crash, GoTo, Steps
  <2> QED BY <2>1, <2>2
<1>13. step \in [Request -> Steps]
  BY DEF TypeOK
<1>2. \A q \in Request \ {r} : step'[q] = step[q]
  BY <1>12, <1>13
<1>3. hooks' = hooks => Forwarded' = Forwarded
  BY <1>0 DEF Forwarded, HooksFor
<1>10. store' = store => Entries' = Entries
  BY DEF Entries
<1>4. CASE Load(r)
  <2>1. /\ hooks' = hooks /\ store' = store /\ processed'[r] = Entries
        /\ step'[r] = "answered" \/ (step'[r] = "fetch" /\ tx \notin Entries)
    BY <1>4 DEF Load, GoTo, Answer, TypeOK
  <2>2. Forwarded \subseteq Entries
    BY <1>1, <1>4 DEF Load
  <2>3. Progress(r)'
    BY <1>0, <1>3, <2>1, <2>2 DEF Progress
  <2> QED BY <1>0, <1>1, <1>2, <1>3, <1>10, <2>1, <2>2, <2>3, SerialIfOwn DEF Serial
<1>5. CASE Fetch(r) \/ FetchFails(r)
  <2>1. /\ step[r] = "fetch" /\ step'[r] \in {"webhook", "answered"}
        /\ UNCHANGED <<hooks, store, processed>>
    <3>1. /\ step[r] = "fetch" /\ UNCHANGED <<hooks, store, processed>>
          /\ \/ step' = [step EXCEPT ![r] = "webhook"]
             \/ step' = [step EXCEPT ![r] = "answered"]
      BY <1>5 DEF Fetch, FetchFails, GoTo, Answer
    <3> QED BY <3>1, <1>13
  <2>2. Progress(r)'
    BY <1>0, <1>1, <1>3, <2>1 DEF Progress
  <2> QED BY <1>0, <1>1, <1>2, <1>3, <1>10, <2>1, <2>2, SerialIfOwn DEF Serial
<1>6. CASE PostWebhook(r)
  <2>1. /\ step[r] = "webhook" /\ step'[r] = "save"
        /\ UNCHANGED <<store, processed>>
    BY <1>6 DEF PostWebhook, GoTo, TypeOK
  <2>2. PICK post : post.by = r /\ (hooks' = hooks \/ hooks' = hooks \cup {post})
    <3>1. ASSUME NEW a, hooks' = hooks \cup {[by |-> r, answer |-> a]}
          PROVE  \E post : post.by = r /\ hooks' = hooks \cup {post}
      <4> DEFINE post == [by |-> r, answer |-> a]
      <4>1. post.by = r
        OBVIOUS
      <4> HIDE DEF post
      <4>2. hooks' = hooks \cup {post}
        BY <3>1 DEF post
      <4> QED BY <4>1, <4>2
    <3>2. [by |-> r].by = r
      OBVIOUS
    <3> QED BY <1>6, <3>1, <3>2 DEF PostWebhook
  <2>3. Forwarded \subseteq processed[r] /\ tx \notin Forwarded
    BY <1>1, <2>1 DEF Progress
  <2>4. \A h \in hooks : payload[h.by].txhash # tx
    BY <1>1, <2>3 DEF Forwarded, HooksFor
  <2>5. \A h, g \in hooks' : payload'[h.by].txhash = payload'[g.by].txhash => h = g
    BY <1>0, <2>2, <2>4 DEF Serial
  <2>6. Forwarded' \subseteq Forwarded \cup {tx}
    BY <1>0, <2>2 DEF Forwarded, HooksFor
  <2>7. Progress(r)'
    BY <1>0, <2>1, <2>3, <2>6 DEF Progress
  <2> QED BY <1>1, <1>2, <2>1, <2>5, <2>7, SerialIfOwn
<1>7. CASE SaveTruncates(r)
  <2>1. /\ step[r] = "save" /\ step'[r] = "write"
        /\ hooks' = hooks /\ store' = {}
        /\ processed'[r] = processed[r] \cup {tx}
    BY <1>7 DEF SaveTruncates, GoTo, TypeOK
  <2>2. Progress(r)'
    BY <1>1, <1>3, <2>1 DEF Progress
  <2> QED BY <1>0, <1>1, <1>2, <2>1, <2>2, SerialIfOwn DEF Serial
<1>8. CASE SaveWrites(r)
  <2>1. /\ step[r] = "write" /\ step'[r] = "answered"
        /\ hooks' = hooks
        /\ store = {} => Entries' = processed[r]
    <3>1. processed[r] # Invalid /\ Encodes(r)
      BY <1>8, VerifySaleAssumption DEF SaveWrites, Orderly, TypeOK
    <3> QED BY <1>8, <3>1 DEF SaveWrites, Answer, TypeOK, Entries
  <2>2. Progress(r)'
    BY <2>1 DEF Progress
  <2>3. Forwarded' \subseteq Entries'
    BY <1>1, <1>3, <2>1 DEF Progress
  <2> QED BY <1>0, <1>1, <1>2, <2>1, <2>2, <2>3, SerialIfOwn DEF Serial
<1>9. CASE Crash(r)
  <2>1. /\ step[r] \notin {"save", "write"} /\ step'[r] = "crashed"
        /\ hooks' = hooks /\ store' = store
    BY <1>9 DEF Crash, Orderly, GoTo, TypeOK
  <2>2. Progress(r)'
    BY <2>1 DEF Progress
  <2> QED BY <1>0, <1>1, <1>2, <1>3, <1>10, <2>1, <2>2, SerialIfOwn DEF Serial
<1>11. ~LoadFails(r) /\ ~SaveFails(r) /\ ~WriteFails(r)
  BY DEF LoadFails, SaveFails, WriteFails, Orderly
<1> QED BY <1>4, <1>5, <1>6, <1>7, <1>8, <1>9, <1>11 DEF Serve

\* What the store is for, "to prevent duplicate webhook firing for the same tx
\* hash", it achieves until two requests overlap, the disk fails, a process dies
\* between the webhook and the end of its save, or the webhook answers with
\* bytes that are not UTF-8: up to then a payment fires at most once, however
\* often it is submitted and whatever else goes wrong.
THEOREM OrderFiresOnce == Spec => []FiredOnceInOrder
<1>1. Init => OrderInv
  BY DEF Init, OrderInv, Serial, Progress, Busy, Forwarded, HooksFor
<1>2. TypeOK /\ RequestsOK /\ OrderInv /\ [Next]_vars => OrderInv'
  <2> SUFFICES ASSUME TypeOK, RequestsOK, OrderInv, [Next]_vars, BlockDuplicates, orderly'
               PROVE  Serial'
    BY DEF OrderInv
  <2>1. CASE UNCHANGED vars
    BY <2>1 DEF vars, OrderInv, Serial, Progress, Entries, Forwarded, HooksFor
  <2>2. CASE Next
    <3>1. Serial
      BY <2>2 DEF OrderInv, Next, Serve, Arrive, Load, LoadFails, Fetch, FetchFails, PostWebhook,
                  SaveTruncates, SaveFails, SaveWrites, WriteFails, Crash, Orderly
    <3> QED BY <2>2, <3>1, SerialArrive, SerialServe DEF Next
  <2> QED BY <2>1, <2>2
<1>3. OrderInv => FiredOnceInOrder
  <2> SUFFICES ASSUME Serial, NEW tx \in Tx
               PROVE  Cardinality({h \in HooksFor(tx) : h.answer.arrived}) <= 1
    BY DEF OrderInv, FiredOnceInOrder, FiredOnce
  <2> DEFINE fired == {h \in HooksFor(tx) : h.answer.arrived}
  <2>1. \A h, g \in fired : h = g
    BY DEF Serial, HooksFor
  <2> HIDE DEF fired
  <2>2. CASE fired = {}
    BY <2>2, FS_EmptySet DEF fired
  <2>3. ASSUME NEW h \in fired PROVE Cardinality(fired) <= 1
    <3>1. fired = {h}
      BY <2>1, <2>3
    <3>2. Cardinality({h}) = 1
      BY FS_Singleton
    <3> QED BY <3>1, <3>2
  <2> QED BY <2>2, <2>3 DEF fired
<1> QED BY <1>1, <1>2, <1>3, RequestsInvariant, PTL DEF Spec
=============================================================================
