----------------------------- MODULE NumiWatcher -----------------------------
(* numi_update_watcher.py: fetches a page of the accelerator every so often,   *)
(* takes its features out of it, and has the state and, when it is a new one,  *)
(* the operators' message indexed in Elasticsearch.                            *)
EXTENDS Integers, Sequences, FiniteSets

CONSTANTS Message,    \* what a message may say: words, and whether in capitals; or Missing
          Missing,    \* None: the page has no such feature, or more than one
          Outcomes,   \* of a request: "page", "http" (HTTPException), "other" (any other exception)
          MaxFetches, \* bound: requests
          MaxFailures \* bound: bulk requests that fail

VARIABLES step,       \* of main
          data,       \* the page, once fetched
          admsg, last_admsg,
          bulk,       \* what es.bulk is called with: "state", or with the message
          posted, indexed, \* the messages it was called with, and those it succeeded with
          changed,    \* the messages that differed from the one before
          fetches, failures

vars == <<step, data, admsg, last_admsg, bulk, posted, indexed, changed, fetches, failures>>

lower(m) == m[1]
NoMessage == <<>>  \* none yet
Page == [message : Message, importantMessage : Message, required : BOOLEAN]
NoPage == <<>>

Init == /\ step = "request" /\ data = NoPage /\ admsg = NoMessage /\ last_admsg = NoMessage
        /\ bulk = "none" /\ posted = <<>> /\ indexed = <<>> /\ changed = <<>>
        /\ fetches = 0 /\ failures = 0

\* Everything has its type.
TypeOK ==
  /\ step \in {"request", "extract", "compare", "index", "sleep", "done", "died"}
  /\ data \in Page \cup {NoPage} /\ bulk \in {"none", "state", "message"}
  /\ {admsg, last_admsg} \subseteq [message : Message, importantMessage : Message] \cup {NoMessage}
  /\ fetches \in 0 .. MaxFetches /\ failures \in 0 .. MaxFailures
  /\ Len(indexed) <= Len(posted)

\* request_data: a page, or none when HTTP fails; whatever else goes wrong ends the process.
Request(outcome) ==
  /\ step = "request" /\ fetches < MaxFetches /\ fetches' = fetches + 1
  /\ \/ outcome = "page" /\ step' = "extract" /\ data' \in Page
     \/ outcome = "http" /\ step' = "sleep" /\ UNCHANGED data
     \/ outcome = "other" /\ step' = "died" /\ UNCHANGED data
  /\ UNCHANGED <<admsg, last_admsg, bulk, posted, indexed, changed, failures>>

\* extract_features: every feature may be missing but the temperature and the date, of which
\* a number and a time are made without a look.
Extract == /\ step = "extract"
           /\ IF data.required
              THEN /\ step' = "compare"
                   /\ admsg' = [message |-> data.message, importantMessage |-> data.importantMessage]
              ELSE step' = "died" /\ UNCHANGED admsg
           /\ data' = NoPage /\ UNCHANGED <<last_admsg, bulk, posted, indexed, changed, fetches, failures>>

\* is_msg_new: the first one is, and one with other words in either of its parts.  Comparing a
\* part that is missing raises, unless the part before it has decided.
Sensitive == {"message", "importantMessage"}
DifferExactly(k) == admsg[k] # last_admsg[k]
Differ(k) == lower(admsg[k]) # lower(last_admsg[k])
First == last_admsg = NoMessage
Some(k) == admsg[k] # Missing /\ last_admsg[k] # Missing
Raises == ~First /\ (\/ ~Some("message")
                     \/ ~Differ("message") /\ ~Some("importantMessage"))
is_msg_new == First \/ Differ("message") \/ Differ("importantMessage")
\* The message is the last one from here on, whatever becomes of the request.
Compare == /\ step = "compare"
           /\ IF Raises THEN step' = "died" /\ UNCHANGED <<last_admsg, bulk, changed>>
              ELSE /\ step' = "index" /\ last_admsg' = admsg
                   /\ IF is_msg_new THEN bulk' = "message" /\ changed' = Append(changed, admsg)
                      ELSE bulk' = "state" /\ UNCHANGED changed
           /\ UNCHANGED <<data, admsg, posted, indexed, fetches, failures>>

\* es.bulk: what it raises is logged and forgotten.
Index(succeeds) ==
  /\ step = "index" /\ step' = "sleep"
  /\ IF succeeds THEN UNCHANGED failures ELSE failures < MaxFailures /\ failures' = failures + 1
  /\ posted' = (IF bulk = "message" THEN Append(posted, admsg) ELSE posted)
  /\ indexed' = (IF bulk = "message" /\ succeeds THEN Append(indexed, admsg) ELSE indexed)
  /\ bulk' = "none" /\ UNCHANGED <<data, admsg, last_admsg, changed, fetches>>

Sleep == step = "sleep" /\ step' = "request"
         /\ UNCHANGED <<data, admsg, last_admsg, bulk, posted, indexed, changed, fetches, failures>>

\* An interrupt ends the loop wherever it comes.
Interrupt == /\ step \notin {"done", "died"} /\ step' = "done"
             /\ UNCHANGED <<data, admsg, last_admsg, bulk, posted, indexed, changed, fetches, failures>>

Next == \/ \E o \in Outcomes : Request(o)
        \/ Extract \/ Compare \/ (\E b \in BOOLEAN : Index(b)) \/ Sleep \/ Interrupt
Spec == Init /\ [][Next]_vars

(* --- properties ----------------------------------------------------------------- *)
\* The same words in a row: each message of the sequence says what the one before it said.
Words(m) == [k \in Sensitive |-> IF m[k] = Missing THEN Missing ELSE lower(m[k])]
InRow(s) == \E i \in 1 .. Len(s) - 1 : Words(s[i]) = Words(s[i + 1])

\* The index is offered a message only when it says something else than the last one offered,
\* however its letters and the pages in between were.
OfferedOnce == ~InRow(posted)

\* What has changed is in the index, but for what is being sent.  Does not hold: the message of
\* a bulk request that fails counts as the last one seen.
ChangesIndexed == step = "sleep" => indexed = changed

(* --- the inductive invariant ---------------------------------------------------- *)
Features == [message : Message, importantMessage : Message]
Same(m, n) == Words(m) = Words(n)
\* What was offered last says what was seen last, unless that is about to be offered for saying
\* something else.
LastOffered == posted[Len(posted)]
NoneOffered == last_admsg = NoMessage /\ posted = <<>>
Following == /\ last_admsg \in Features /\ posted # <<>> /\ Same(LastOffered, last_admsg)
Offering == /\ last_admsg \in Features /\ admsg = last_admsg
            /\ posted # <<>> => ~Same(LastOffered, admsg)
IInv == /\ posted \in Seq(Features)
        /\ step = "extract" => data \in Page
        /\ step = "compare" => admsg \in Features
        /\ step \in {"request", "extract", "compare", "sleep"} => NoneOffered \/ Following
        /\ step = "index" => CASE bulk = "message" -> Offering [] bulk = "state" -> Following
                                [] OTHER -> FALSE
        /\ OfferedOnce
=============================================================================
