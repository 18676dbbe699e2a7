----------------------------- MODULE VerifySale -----------------------------
(***************************************************************************)
(* sales/api/verify-sale.php: a merchant's server checks that a payment is *)
(* on chain, tells the merchant's fulfilment service about it (the         *)
(* webhook) and records the transaction in a JSON file.                    *)
(*                                                                         *)
(* PHP runs one process per request.  Between two calls that leave the     *)
(* process (reading the file, asking an LCD endpoint, posting the webhook, *)
(* and the two system calls of a save) other requests run, so each such    *)
(* call is an action.  Nothing locks the file.                             *)
(***************************************************************************)
EXTENDS Naturals, FiniteSets

CONSTANTS
    Request,      \* the requests that may arrive, one PHP process each
    Tx,           \* transaction hashes
    OnChain,      \* external: what an LCD endpoint tells of a transaction
    PayloadInput, \* what clients post
    AnswerInput,  \* external: what may become of a webhook post
    Invalid, None, \* a field, or file, that is malformed; one that is not there
    BlockDuplicates, RequireRecipient, RequireMemo, WebhookConfigured, \* config.php
    MaxActive,    \* bound: requests served at the same time
    Faults        \* the faults looked at: "crash", "disk"

TxData  == [code : Nat, from : STRING, to : STRING, denom : STRING,
            amount : Nat, memo : STRING \cup {None}]
Payload == [txhash : Tx \cup {Invalid}, recipient : STRING \cup {Invalid},
            amount : Nat \cup {Invalid}, memo : STRING \cup {None},
            sender : STRING \cup {None}]

\* Whether a post arrived, whether this process saw a 200, 201 or 202, and
\* whether the status line and body it got are valid UTF-8
WebhookAnswer == [arrived : BOOLEAN, ok : BOOLEAN, utf8 : BOOLEAN]

ASSUME VerifySaleAssumption ==
    /\ OnChain \in [Tx -> TxData]
    /\ PayloadInput \subseteq Payload
    /\ AnswerInput \subseteq {a \in WebhookAnswer : a.ok => a.arrived}
    /\ \A hashes \in SUBSET Tx : hashes # Invalid
    /\ {BlockDuplicates, RequireRecipient, RequireMemo, WebhookConfigured} \subseteq BOOLEAN
    /\ MaxActive \in Nat /\ None \notin Nat
    /\ Faults \subseteq {"crash", "disk"}

VARIABLES
    step,       \* where the process serving a request is
    payload,    \* what the client posted
    processed,  \* $processed: the process's own copy of the store
    status,     \* the HTTP status it answered with
    store,      \* the JSON file: the hashes in it, Invalid if it does not parse
    hooks,      \* external: the webhook posts, and what became of each
    orderly     \* history: none of the things has happened that lose the store

vars == <<step, payload, processed, status, store, hooks, orderly>>

\* The hashes load_processed_store finds in the file.  No file, an empty one,
\* which is also what is there between truncation and write, and one that does
\* not parse have none.
Entries == IF store = Invalid THEN {} ELSE store

\* So far so good, and still so if `fine`.
Orderly(fine) == orderly' = (orderly /\ fine)

Steps == {"idle", "load", "fetch", "webhook", "save", "write", "answered", "crashed"}
Active == {r \in Request : step[r] \notin {"idle", "answered", "crashed"}}

Init ==
    /\ step = [r \in Request |-> "idle"]
    /\ payload = [r \in Request |-> None]
    /\ processed = [r \in Request |-> {}]
    /\ status = [r \in Request |-> None]
    /\ store = {}
    /\ hooks = {}
    /\ orderly = TRUE

-----------------------------------------------------------------------------
GoTo(r, where) == step' = [step EXCEPT ![r] = where] /\ UNCHANGED status
Answer(r, code) ==
    /\ step' = [step EXCEPT ![r] = "answered"]
    /\ status' = [status EXCEPT ![r] = code]

WellFormed(p) == p.txhash # Invalid /\ p.recipient # Invalid /\ p.amount # Invalid

Arrive(r, p) ==
    /\ step[r] = "idle"
    /\ Cardinality(Active) < MaxActive
    /\ payload' = [payload EXCEPT ![r] = p]
    /\ IF WellFormed(p) THEN GoTo(r, "load") ELSE Answer(r, 400)
    /\ Orderly(WellFormed(p) => Active = {})
    /\ UNCHANGED <<processed, store, hooks>>

\* Mutants of Load: any stored hash is a duplicate; null from json_decode is
\* made a list of one null.
LoadAnyDuplicate(r) ==
    /\ step[r] = "load"
    /\ processed' = [processed EXCEPT ![r] = Entries]
    /\ IF BlockDuplicates /\ Entries # {} THEN Answer(r, 409) ELSE GoTo(r, "fetch")
    /\ UNCHANGED <<payload, store, hooks, orderly>>
LoadNull(r) ==
    /\ step[r] = "load"
    /\ processed' = [processed EXCEPT ![r] = IF store = Invalid THEN {None} ELSE store]
    /\ IF BlockDuplicates /\ payload[r].txhash \in Entries
       THEN Answer(r, 409) ELSE GoTo(r, "fetch")
    /\ UNCHANGED <<payload, store, hooks, orderly>>

\* load_processed_store, and the duplicate check on what it returned
Load(r) ==
    /\ step[r] = "load"
    /\ processed' = [processed EXCEPT ![r] = Entries]
    /\ IF BlockDuplicates /\ payload[r].txhash \in Entries
       THEN Answer(r, 409) ELSE GoTo(r, "fetch")
    /\ UNCHANGED <<payload, store, hooks, orderly>>

\* A file that is there and cannot be read counts as empty.
LoadFails(r) ==
    /\ "disk" \in Faults
    /\ step[r] = "load"
    /\ processed' = [processed EXCEPT ![r] = {}]
    /\ GoTo(r, "fetch")
    /\ Orderly(FALSE)
    /\ UNCHANGED <<payload, store, hooks>>

Matches(p, tx) ==
    /\ RequireMemo /\ p.memo # None => tx.memo = p.memo
    /\ RequireRecipient => tx.to = p.recipient
    /\ tx.amount = p.amount
    /\ tx.denom = "uatom"
    /\ p.sender # None => tx.from = p.sender

\* Mutant of Fetch: a transaction that failed on chain passes.
FetchAnyCode(r) ==
    /\ step[r] = "fetch"
    /\ IF Matches(payload[r], OnChain[payload[r].txhash]) THEN GoTo(r, "webhook")
                                                           ELSE Answer(r, 422)
    /\ UNCHANGED <<payload, processed, store, hooks, orderly>>

\* http_get_json has the transaction from one of its endpoints.
Fetch(r) ==
    /\ step[r] = "fetch"
    /\ LET tx == OnChain[payload[r].txhash] IN
       IF tx.code = 0 /\ Matches(payload[r], tx) THEN GoTo(r, "webhook")
                                                 ELSE Answer(r, 422)
    /\ UNCHANGED <<payload, processed, store, hooks, orderly>>

\* Every endpoint failed, timed out or did not know the transaction yet.
FetchFails(r) ==
    /\ step[r] = "fetch"
    /\ Answer(r, 502)
    /\ UNCHANGED <<payload, processed, store, hooks, orderly>>

\* http_post_json.  The post may arrive and its answer be an error or be lost.
\* Whatever came back, the process goes on.
PostWebhook(r) ==
    /\ step[r] = "webhook"
    /\ IF WebhookConfigured
       THEN \E a \in AnswerInput : hooks' = hooks \cup {[by |-> r, answer |-> a]}
       ELSE UNCHANGED hooks
    /\ GoTo(r, "save")
    /\ UNCHANGED <<payload, processed, store, orderly>>

\* Mutant of SaveTruncates: records only what the webhook is known to have got.
SaveFulfilled(r) ==
    /\ step[r] = "save"
    /\ processed' = [processed EXCEPT ![r] =
          @ \cup {payload[h.by].txhash : h \in {x \in hooks : x.by = r /\ x.answer.ok}}]
    /\ store' = {}
    /\ GoTo(r, "write")
    /\ UNCHANGED <<payload, hooks, orderly>>

\* file_put_contents opens the file, which empties it, ...
SaveTruncates(r) ==
    /\ step[r] = "save"
    /\ processed' = [processed EXCEPT ![r] = @ \cup {payload[r].txhash}]
    /\ store' = {}
    /\ GoTo(r, "write")
    /\ UNCHANGED <<payload, hooks, orderly>>

\* json_encode takes what the process has to save: the entries it has loaded,
\* and one of its own that holds the webhook's answer as it came in.
Encodes(r) == \A h \in hooks : h.by = r => h.answer.utf8

\* ... and then writes from its start.  What another process wrote since the
\* file was emptied is overwritten, or its tail stays and garbles the file.
\* Of data that json_encode refuses, nothing is written, and nobody notices.
SaveWrites(r) ==
    /\ step[r] = "write"
    /\ \/ Encodes(r) /\ store' = processed[r]
       \/ Encodes(r) /\ store # {} /\ store' = Invalid
       \/ ~Encodes(r) /\ store' = store
    /\ Answer(r, 200)
    /\ Orderly(Encodes(r))
    /\ UNCHANGED <<payload, processed, hooks>>

\* A file that cannot be opened is a warning nobody looks at, ...
SaveFails(r) ==
    /\ "disk" \in Faults
    /\ step[r] = "save"
    /\ processed' = [processed EXCEPT ![r] = @ \cup {payload[r].txhash}]
    /\ Answer(r, 200)
    /\ Orderly(FALSE)
    /\ UNCHANGED <<payload, store, hooks>>

\* ... and so is a disk that is full before all is written, or anything.
WriteFails(r) ==
    /\ "disk" \in Faults
    /\ step[r] = "write"
    /\ store' \in {store, Invalid}
    /\ Answer(r, 200)
    /\ Orderly(FALSE)
    /\ UNCHANGED <<payload, processed, hooks>>

\* The process is killed: by its time limit, a restart, the machine.
Crash(r) ==
    /\ "crash" \in Faults
    /\ r \in Active
    /\ GoTo(r, "crashed")
    /\ Orderly(step[r] \notin {"save", "write"})
    /\ UNCHANGED <<payload, processed, store, hooks>>

Serve(r) ==
    \/ Load(r) \/ LoadFails(r) \/ Fetch(r) \/ FetchFails(r) \/ PostWebhook(r)
    \/ SaveTruncates(r) \/ SaveFails(r) \/ SaveWrites(r) \/ WriteFails(r)

Next ==
    \E r \in Request :
        \/ \E p \in PayloadInput : Arrive(r, p)
        \/ Serve(r)
        \/ Crash(r)

Spec == Init /\ [][Next]_vars

-----------------------------------------------------------------------------
TypeOK ==
    /\ step \in [Request -> Steps]
    /\ payload \in [Request -> PayloadInput \cup {None}]
    /\ processed \in [Request -> SUBSET Tx]
    /\ status \in [Request -> {200, 400, 409, 422, 502, None}]
    /\ store = Invalid \/ store \subseteq Tx
    /\ hooks \subseteq [by : Request, answer : AnswerInput]
    /\ orderly \in BOOLEAN

HooksFor(tx) == {h \in hooks : payload[h.by].txhash = tx}

\* The fulfilment service hears of a payment at most once: the store is there
\* "to prevent duplicate webhook firing for the same tx hash"
\* (sales/api/config.example.php).
FiredOnce == \A tx \in Tx : Cardinality({h \in HooksFor(tx) : h.answer.arrived}) <= 1

\* Blocking duplicates, the store does keep the webhook from firing twice, even
\* where answers are lost and processes are killed before or after their save,
\* up to the first of these: a request arrives while another is served, the disk
\* fails, a process is killed between the webhook and the end of its save, the
\* webhook answers with bytes that json_encode refuses.
FiredOnceInOrder == BlockDuplicates /\ orderly => FiredOnce

\* What is passed on is a payment that succeeded on chain and moved the very
\* amount its client claimed, however many requests and faults overlap.
OnlyPaymentsForwarded ==
    \A h \in hooks :
        LET tx == OnChain[payload[h.by].txhash]
        IN  tx.code = 0 /\ tx.amount = payload[h.by].amount /\ tx.denom = "uatom"

\* A client is turned away as a duplicate only if a request before his did try
\* to pass the payment on: no overlap of saves, no torn file and no crash makes
\* the store claim a transaction nobody worked on.
DuplicateWasForwarded ==
    \A r \in Request : status[r] = 409 => HooksFor(payload[r].txhash) # {}

\* "the script rejects duplicate tx hashes after a successful verify+webhook
\* cycle" (sales/api/config.example.php): a payment turned away as a duplicate
\* has reached the fulfilment service.
DuplicateWasFulfilled ==
    \A r \in Request :
        status[r] = 409 => \E h \in HooksFor(payload[r].txhash) : h.answer.ok
=============================================================================
