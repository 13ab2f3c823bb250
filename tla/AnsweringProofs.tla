--------------------------- MODULE AnsweringProofs ---------------------------
(***************************************************************************)
(* Proofs about Answering.  What a request has done so far is told by its  *)
(* own record, so the invariant says of each record what its step implies; *)
(* only the overlap of two calls into one Llama, the health of the server  *)
(* and the end of the process reach from one record into another.          *)
(***************************************************************************)
EXTENDS Answering, TLAPS

Doors == {"idle", "received"}
Early == {"idle", "received", "question", "translate", "retrieve"}
Asking == {"assemble", "generate", "generating"}

Steps == Early \cup Asking \cup {"items", "done"}

Request ==
    [step : Steps, inquiry : InquiryType, assured : BOOLEAN,
     passages : Seq(PassageType),
     prompt : Seq([marker : Nat, chunk : Nat, note : BOOLEAN]),
     citations : Seq([marker : Nat, chunk : Nat, is_footnote : BOOLEAN]),
     models : SUBSET {"translator", "llm"}, asked : {0, 1},
     beside : SUBSET Requests, text : {"none", "own", "empty", "mixed"},
     cause : {"none", "client", "token", "translator", "retrieval",
              "no collection", "citation", "llm"},
     reply : {"none", "401", "503", "422", "400", "500", "502", "items",
              "missing_stable_id", "cited", "deflected", "lost"}]

(* What the generator was shown, and what is cited for it. *)
Grounded(x) ==
    \/ x.prompt = <<>> /\ x.citations = <<>>
    \/ /\ x.prompt = Sources(x.passages) /\ x.citations = Citations(x.passages)
       /\ Citable(x.passages) /\ Len(x.passages) >= MinPassages

(* What the step of a request in progress implies. *)
Progress(x) ==
    /\ x.step # "done" => x.reply = "none" /\ x.cause = "none" /\ x.text = "none"
    /\ x.step \in Doors \cup {"question"} => x.models = {}
    /\ x.step \in Early => x.passages = <<>>
    /\ x.step \in Early \cup {"items", "assemble"} =>
         x.prompt = <<>> /\ x.citations = <<>>
    /\ x.step \notin {"generating", "done"} => x.asked = 0
    /\ x.step \in Asking => x.inquiry.kind = "ask"
    /\ x.step = "generating" => x.models # {}
    /\ x.step = "items" => x.inquiry.kind = "retrieve"
    /\ x.step \notin Doors \cup {"done"} => x.inquiry.valid
    /\ x.step \notin Doors \cup {"question", "done"} => x.inquiry.question # "blank"
    /\ x.step \in {"generate", "generating"} =>
         (Len(x.passages) >= MinPassages => x.prompt = Sources(x.passages))

(* NothingInVain of one request. *)
Thrifty(x) ==
    /\ x.reply \in {"401", "422", "503"} \/ x.cause = "token" => x.models = {}
    /\ x.asked = 1 => x.inquiry.kind = "ask"

(* AnswersItsSources of one request, beside Grounded. *)
Faithful(x) ==
    /\ x.reply = "cited" => x.prompt = Sources(x.passages)
    /\ x.reply = "deflected" => Len(x.passages) < MinPassages
    /\ x.text = "mixed" => x.beside # {}

(* VerdictExplained of one request. *)
Explained(x) ==
    /\ x.reply = "502" =>
         /\ x.inquiry.kind = "retrieve" /\ x.passages = <<>>
         /\ x.cause \in {"translator", "retrieval", "no collection"}
    /\ x.reply = "missing_stable_id" =>
         x.inquiry.kind = "retrieve" /\ ~Citable(x.passages)
    /\ x.reply = "400" =>
         \/ x.inquiry.question = "blank" /\ x.models = {}
         \/ x.cause \in {"translator", "llm"} /\ x.models # {}
         \/ x.cause = "retrieval" /\ x.passages = <<>>
         \/ x.cause = "citation" /\ ~Citable(x.passages)
    /\ x.reply = "500" =>
         \/ x.inquiry.kind = "ask" /\ x.cause \notin {"client", "token"}
         \/ \E n \in DOMAIN x.passages : ~x.passages[n].complete
         \/ /\ x.cause = "token"
            /\ x.inquiry.kind = "retrieve" /\ x.inquiry.token # "absent"
            /\ \/ x.inquiry.token = "foreign"
               \/ \E c \in Configurations : c.guard = "foreign"
    /\ x.reply \in {"cited", "deflected", "items", "502", "400"} =>
         /\ x.inquiry.valid
         /\ x.inquiry.question = "blank" => x.reply = "400"

Sound(x) ==
    /\ x \in Request
    /\ Grounded(x) /\ Progress(x) /\ Thrifty(x) /\ Faithful(x) /\ Explained(x)

(* A request that was assured finds the server as /health described it. *)
Assured(x) ==
    x.assured =>
        /\ x.step \notin {"idle", "done"} => server.vouched
        /\ x.reply # "503" /\ x.cause # "no collection"

ServerSound ==
    /\ server.vouched => server.up /\ server.wired /\ index # "absent"
    /\ server \in [up : BOOLEAN, wired : BOOLEAN,
                   conf : Configurations \cup {Unset}, vouched : BOOLEAN]
    /\ index \in {"absent", "empty", "filled"}

AnswerInv ==
    /\ ServerSound
    /\ req \in [Requests -> Request]
    /\ \A r \in Requests : Sound(req[r]) /\ Assured(req[r])

-------------------------------------------------------------------------------
(* Lists of sources *)

LEMMA ListTyped ==
    ASSUME NEW T, NEW n \in Nat, NEW f \in [1..n -> T]
    PROVE  f \in Seq(T)
  OBVIOUS

LEMMA SourcesTyped ==
    ASSUME NEW ps \in Seq(PassageType)
    PROVE  /\ Sources(ps) \in Seq([marker : Nat, chunk : Nat, note : BOOLEAN])
           /\ Citations(ps) \in Seq([marker : Nat, chunk : Nat, is_footnote : BOOLEAN])
           /\ DOMAIN Sources(ps) = DOMAIN ps /\ DOMAIN Citations(ps) = DOMAIN ps
           /\ Len(ps) \in Nat /\ DOMAIN ps = 1..Len(ps)
<1>1. DOMAIN ps = 1..Len(ps) /\ Len(ps) \in Nat
  OBVIOUS
<1>2. \A n \in 1..Len(ps) : ps[n] \in PassageType
  OBVIOUS
<1>3. \A n \in 1..Len(ps) : ps[n].chunk \in Nat /\ ps[n].footnote \in BOOLEAN
  BY <1>2 DEF PassageType
<1>4. Sources(ps) \in [1..Len(ps) -> [marker : Nat, chunk : Nat, note : BOOLEAN]]
  BY <1>1, <1>3 DEF Sources
<1>5. Citations(ps) \in [1..Len(ps) -> [marker : Nat, chunk : Nat, is_footnote : BOOLEAN]]
  BY <1>1, <1>3 DEF Citations
<1>6. DOMAIN Sources(ps) = DOMAIN ps /\ DOMAIN Citations(ps) = DOMAIN ps
  BY DEF Sources, Citations
<1>7. Sources(ps) \in Seq([marker : Nat, chunk : Nat, note : BOOLEAN])
  BY <1>1, <1>4, ListTyped
<1>8. Citations(ps) \in Seq([marker : Nat, chunk : Nat, is_footnote : BOOLEAN])
  BY <1>1, <1>5, ListTyped
<1> QED
  BY <1>1, <1>6, <1>7, <1>8

LEMMA InitSound == Init => AnswerInv
<1> SUFFICES ASSUME Init PROVE AnswerInv
  OBVIOUS
<1>1. Idle.inquiry \in InquiryType
  BY DEF Idle, Unasked, InquiryType
<1>2. Idle \in Request
  BY <1>1 DEF Idle, Request, Steps, Early
<1>3. Sound(Idle) /\ Assured(Idle)
  BY <1>2 DEF Sound, Idle, Grounded, Progress, Thrifty, Faithful, Explained, Assured,
              Doors, Early, Asking
<1>4. ServerSound
  BY DEF Init, Down, ServerSound
<1> QED
  BY <1>2, <1>3, <1>4 DEF AnswerInv, Init

-------------------------------------------------------------------------------
(* Steps of one request *)

(* A step that leaves every record sound keeps the invariant. *)
LEMMA EveryRecord ==
    ASSUME ServerSound', req' \in [Requests -> Request],
           \A q \in Requests :
              /\ Sound(req'[q])
              /\ req'[q].assured =>
                   /\ req'[q].step \notin {"idle", "done"} => server'.vouched
                   /\ req'[q].reply # "503" /\ req'[q].cause # "no collection"
    PROVE  AnswerInv'
<1>1. ASSUME NEW q \in Requests PROVE Sound(req[q])'
  BY Zenon DEF Sound, Grounded, Progress, Thrifty, Faithful, Explained, Request,
               Sources, Citations, Citable, PassageType, InquiryType, Doors, Early,
               Asking, Steps
<1>2. ASSUME NEW q \in Requests PROVE Assured(req[q])'
  BY DEF Assured
<1> QED
  BY <1>1, <1>2 DEF AnswerInv, Request, Steps, Early, Asking, PassageType, InquiryType

(* A step that replaces one record by a sound one keeps the invariant. *)
LEMMA OneRecord ==
    ASSUME AnswerInv, NEW r \in Requests, NEW y \in Request, Sound(y),
           req' = [req EXCEPT ![r] = y], UNCHANGED <<server, index>>,
           y.assured => /\ y.step \notin {"idle", "done"} => server.vouched
                        /\ y.reply # "503" /\ y.cause # "no collection"
    PROVE  AnswerInv'
<1>1. req' \in [Requests -> Request]
  BY DEF AnswerInv
<1>2. ServerSound'
  BY DEF AnswerInv, ServerSound
<1>3. ASSUME NEW q \in Requests
      PROVE  /\ Sound(req'[q])
             /\ req'[q].assured =>
                  /\ req'[q].step \notin {"idle", "done"} => server'.vouched
                  /\ req'[q].reply # "503" /\ req'[q].cause # "no collection"
  <2>1. CASE q = r
    BY <2>1 DEF AnswerInv
  <2>2. CASE q # r
    BY <2>2 DEF AnswerInv, Assured
  <2> QED  BY <2>1, <2>2
<1> QED
  BY <1>1, <1>2, <1>3, EveryRecord

(* A request on its way: nothing has been replied. *)
LEMMA Unreplied ==
    ASSUME NEW y \in Request, Progress(y), Grounded(y), y.reply = "none",
           y.cause = "none", y.text = "none", y.asked = 1 => y.inquiry.kind = "ask"
    PROVE  Sound(y)
<1>1. Thrifty(y) /\ Faithful(y)
  BY DEF Thrifty, Faithful
<1>2. Explained(y)
  BY DEF Explained
<1> QED  BY <1>1, <1>2 DEF Sound

(* A request that ends with a refusal or an error. *)
LEMMA Ended ==
    ASSUME NEW x \in Request, Sound(x), x.step # "done",
           NEW reply \in {"401", "503", "422", "400", "500", "502", "items",
                          "missing_stable_id"},
           NEW cause \in {"none", "client", "token", "translator", "retrieval",
                          "no collection", "citation", "llm"},
           LET y == [x EXCEPT !.step = "done", !.reply = reply, !.cause = cause]
           IN  Thrifty(y) /\ Explained(y)
    PROVE  /\ [x EXCEPT !.step = "done", !.reply = reply, !.cause = cause] \in Request
           /\ Sound([x EXCEPT !.step = "done", !.reply = reply, !.cause = cause])
<1> DEFINE y == [x EXCEPT !.step = "done", !.reply = reply, !.cause = cause]
<1>1. y \in Request
  BY DEF Request, Steps
<1>2. Grounded(y)
  BY DEF Sound, Grounded, Request
<1>3. Progress(y)
  BY DEF Progress, Doors, Early, Asking, Request
<1>4. Faithful(y)
  BY DEF Sound, Faithful, Progress, Request
<1> QED
  BY <1>1, <1>2, <1>3, <1>4 DEF Sound

LEMMA ReceiveKeeps ==
    ASSUME AnswerInv, NEW r \in Requests, Receive(r)
    PROVE  AnswerInv'
<1>1. PICK q \in Inquiries :
        req' = [req EXCEPT ![r] = [@ EXCEPT !.step = "received", !.inquiry = q,
                                            !.assured = server.vouched]]
  BY DEF Receive
<1> DEFINE x == req[r]
           y == [x EXCEPT !.step = "received", !.inquiry = q,
                          !.assured = server.vouched]
<1>2. x \in Request /\ Sound(x) /\ x.step = "idle"
  BY DEF AnswerInv, Receive
<1>3. q \in InquiryType /\ server.vouched \in BOOLEAN
  BY ServerAssumption DEF AnswerInv, ServerSound
<1>4. y \in Request
  BY <1>2, <1>3 DEF Request, Steps, Early
<1>5. Sound(y)
  <2>1. Progress(y)
    BY <1>2 DEF Sound, Progress, Doors, Early, Asking, Request
  <2>2. x.asked = 0 /\ y.asked = 0 /\ y.reply = "none" /\ y.text = "none"
        /\ y.cause = "none" /\ y.prompt = <<>> /\ y.citations = <<>>
    BY <1>2 DEF Sound, Progress, Doors, Early, Request
  <2>3. Grounded(y)
    BY <2>2 DEF Grounded
  <2>4. y.asked = 1 => y.inquiry.kind = "ask"
    BY <2>2
  <2> HIDE DEF y
  <2> QED  BY <1>4, <2>1, <2>2, <2>3, <2>4, Unreplied
<1>6. y.assured => server.vouched /\ y.reply # "503" /\ y.cause # "no collection"
  BY <1>2 DEF Sound, Progress, Request
<1> QED
  BY <1>1, <1>4, <1>5, <1>6, OneRecord DEF Receive

LEMMA RefuseKeeps ==
    ASSUME AnswerInv, NEW r \in Requests, Refuse(r)
    PROVE  AnswerInv'
<1> DEFINE x == req[r]
           reply == Refusal(x.inquiry)
           cause == IF Incomparable(x.inquiry) THEN "token" ELSE "client"
           y == [x EXCEPT !.step = "done", !.reply = reply, !.cause = cause]
<1>1. x \in Request /\ Sound(x) /\ Assured(x) /\ x.step = "received"
  BY DEF AnswerInv, Refuse
<1>2. /\ reply \in {"401", "503", "422", "500"}
      /\ reply = "500" => cause = "token" /\ Incomparable(x.inquiry)
      /\ cause \in {"token", "client"}
  BY DEF Refusal
<1>3. Thrifty(y) /\ Explained(y)
  <2>1. x.models = {} /\ x.asked = 0
    BY <1>1 DEF Sound, Progress, Doors
  <2>2. Incomparable(x.inquiry) =>
          /\ x.inquiry.kind = "retrieve" /\ x.inquiry.token # "absent"
          /\ \/ x.inquiry.token = "foreign"
             \/ \E c \in Configurations : c.guard = "foreign"
    <3>1. server.conf \in Configurations \cup {Unset} /\ Unset.guard # "foreign"
      BY DEF AnswerInv, ServerSound, Unset
    <3> QED  BY <3>1 DEF Incomparable, Guarded
  <2>3. /\ y.models = x.models /\ y.asked = x.asked /\ y.inquiry = x.inquiry
        /\ y.reply = reply /\ y.cause = cause
    BY <1>1 DEF Request
  <2> HIDE DEF y, reply, cause
  <2>4. Thrifty(y)
    BY <2>1, <2>3 DEF Thrifty
  <2>5. Explained(y)
    BY <1>2, <2>2, <2>3 DEF Explained
  <2> QED  BY <2>4, <2>5
<1>4. y \in Request /\ Sound(y)
  BY <1>1, <1>2, <1>3, Ended
<1>5. y.assured => y.reply # "503"
  <2>1. x.assured => server.wired
    BY <1>1 DEF Assured, AnswerInv, ServerSound
  <2> QED  BY <1>1, <2>1 DEF Refusal, Request
<1>6. req' = [req EXCEPT ![r] = y]
  BY DEF Refuse, End
<1>7. y.step = "done" /\ y.cause # "no collection"
  BY <1>1, <1>2 DEF Request
<1> HIDE DEF y
<1> QED
  BY <1>4, <1>5, <1>6, <1>7, OneRecord DEF Refuse

LEMMA AdmitKeeps ==
    ASSUME AnswerInv, NEW r \in Requests, Admit(r)
    PROVE  AnswerInv'
<1> DEFINE x == req[r]
           y == [x EXCEPT !.step = "question"]
<1>1. x \in Request /\ Sound(x) /\ Assured(x) /\ x.step = "received" /\ x.inquiry.valid
  BY DEF AnswerInv, Admit, Welcome
<1>2. y \in Request
  BY <1>1 DEF Request, Steps, Early
<1>3. Sound(y)
  BY <1>1, <1>2 DEF Sound, Grounded, Progress, Thrifty, Faithful, Explained,
                    Doors, Early, Asking, Request
<1>4. req' = [req EXCEPT ![r] = y]
  BY DEF Admit
<1>5. y.assured => server.vouched /\ y.reply # "503" /\ y.cause # "no collection"
  BY <1>1 DEF Assured, Request
<1> QED
  BY <1>1, <1>2, <1>3, <1>4, <1>5, OneRecord DEF Admit

LEMMA PrepareKeeps ==
    ASSUME AnswerInv, NEW r \in Requests, Prepare(r)
    PROVE  AnswerInv'
<1> DEFINE x == req[r]
<1>1. x \in Request /\ Sound(x) /\ Assured(x) /\ x.step = "question"
  BY DEF AnswerInv, Prepare
<1>2. x.models = {} /\ x.inquiry.valid /\ x.reply = "none" /\ x.cause = "none"
  BY <1>1 DEF Sound, Progress, Doors
<1>3. CASE x.inquiry.question = "blank"
  <2> DEFINE y == [x EXCEPT !.step = "done", !.reply = "400", !.cause = "client"]
  <2>1. Thrifty(y) /\ Explained(y)
    BY <1>1, <1>2, <1>3 DEF Sound, Thrifty, Explained, Request
  <2>2. y \in Request /\ Sound(y)
    BY <1>1, <2>1, Ended
  <2>3. y.step = "done" /\ y.reply # "503" /\ y.cause # "no collection"
    BY <1>1 DEF Request
  <2>4. req' = [req EXCEPT ![r] = y]
    BY <1>3 DEF Prepare, Raise, End, Verdict
  <2> HIDE DEF y
  <2> QED  BY <2>2, <2>3, <2>4, OneRecord DEF Prepare
<1>4. CASE x.inquiry.question # "blank"
  <2> DEFINE y == [x EXCEPT !.step = IF x.inquiry.question = "english"
                                     THEN "translate" ELSE "retrieve"]
  <2>1. y \in Request
    BY <1>1 DEF Request, Steps, Early
  <2>2. Progress(y)
    BY <1>1, <1>2, <1>4 DEF Sound, Progress, Doors, Early, Asking, Request
  <2>3. Grounded(y)
    BY <1>1 DEF Sound, Grounded, Request
  <2>4. y.reply = "none" /\ y.text = "none" /\ y.asked = 0 /\ y.cause = "none"
        /\ (y.assured => server.vouched)
    BY <1>1, <1>2 DEF Sound, Progress, Assured, Request
  <2>5. req' = [req EXCEPT ![r] = y]
    BY <1>4 DEF Prepare
  <2> HIDE DEF y
  <2>6. Sound(y)
    BY <2>1, <2>2, <2>3, <2>4, Unreplied
  <2> QED  BY <2>1, <2>4, <2>5, <2>6, OneRecord DEF Prepare
<1> QED  BY <1>3, <1>4

LEMMA TranslateKeeps ==
    ASSUME AnswerInv, NEW r \in Requests, Translate(r)
    PROVE  AnswerInv'
<1> DEFINE x == req[r]
           backend == server.conf.translator
<1>1. x \in Request /\ Sound(x) /\ Assured(x) /\ x.step = "translate"
  BY DEF AnswerInv, Translate
<1>2. x.inquiry.valid /\ x.reply = "none" /\ x.cause = "none" /\ x.passages = <<>>
      /\ x.inquiry.question # "blank" /\ x.text = "none" /\ x.asked = 0
      /\ x.prompt = <<>> /\ x.citations = <<>>
  BY <1>1 DEF Sound, Progress, Doors, Early
<1> DEFINE reply(a) == Verdict(x.inquiry.kind, IF a = "failed" THEN "other" ELSE "value")
           good == [x EXCEPT !.step = "retrieve", !.models = {"translator"}]
           bad(a) == [x EXCEPT !.step = "done", !.models = {"translator"},
                               !.cause = "translator", !.reply = reply(a)]
<1>3. PICK answer \in Answers(backend) :
        req' = [req EXCEPT ![r] = good] \/ req' = [req EXCEPT ![r] = bad(answer)]
  BY DEF Translate
<1>4. CASE req' = [req EXCEPT ![r] = good]
  <2> DEFINE y == good
  <2>1. y \in Request
    BY <1>1 DEF Request, Steps, Early
  <2>2. Progress(y)
    BY <1>1, <1>2 DEF Sound, Progress, Doors, Early, Asking, Request
  <2>3. Grounded(y)
    BY <1>1 DEF Sound, Grounded, Request
  <2>4. y.reply = "none" /\ y.text = "none" /\ y.asked = 0 /\ y.cause = "none"
        /\ (y.assured => server.vouched)
    BY <1>1, <1>2 DEF Assured, Request
  <2>5. req' = [req EXCEPT ![r] = y]
    BY <1>3, <1>4
  <2> HIDE DEF y
  <2>6. Sound(y)
    BY <2>1, <2>2, <2>3, <2>4, Unreplied
  <2> QED  BY <2>1, <2>4, <2>5, <2>6, OneRecord DEF Translate
<1>5. CASE req' = [req EXCEPT ![r] = bad(answer)]
  <2> DEFINE y == bad(answer)
  <2>1. /\ reply(answer) \in {"400", "502", "500"}
        /\ reply(answer) = "502" => x.inquiry.kind = "retrieve"
        /\ reply(answer) = "500" => x.inquiry.kind # "retrieve"
    BY DEF Verdict
  <2>2. x.inquiry.kind # "retrieve" => x.inquiry.kind = "ask"
    BY <1>1 DEF Request, InquiryType
  <2>3. y \in Request
    <3> HIDE DEF reply
    <3> QED  BY <1>1, <2>1 DEF Request, Steps
  <2>4. Grounded(y) /\ Progress(y)
    <3>1. y.step = "done" /\ y.passages = <<>> /\ y.prompt = <<>> /\ y.citations = <<>>
      BY <1>1, <1>2 DEF Request
    <3> HIDE DEF y
    <3> QED  BY <3>1 DEF Grounded, Progress, Doors, Early, Asking
  <2>5. Thrifty(y) /\ Faithful(y)
    <3> HIDE DEF reply
    <3> QED  BY <1>1, <1>2, <2>1 DEF Sound, Thrifty, Faithful, Request
  <2>6. Explained(y)
    <3> HIDE DEF reply
    <3> QED  BY <1>1, <1>2, <2>1, <2>2 DEF Explained, Request
  <2>7. y.step = "done" /\ y.reply # "503" /\ y.cause # "no collection"
    <3> HIDE DEF reply
    <3> QED  BY <1>1, <2>1 DEF Request
  <2>8. req' = [req EXCEPT ![r] = y]
    BY <1>3, <1>5
  <2> HIDE DEF y
  <2>9. Sound(y)
    BY <2>3, <2>4, <2>5, <2>6 DEF Sound
  <2> QED  BY <2>3, <2>7, <2>8, <2>9, OneRecord DEF Translate
<1> QED  BY <1>3, <1>4, <1>5

(* A failed request of the kinds that Verdict tells apart. *)
LEMMA Raised ==
    ASSUME AnswerInv, NEW r \in Requests, UNCHANGED <<server, index>>,
           NEW error \in {"value", "other"},
           NEW cause \in {"retrieval", "no collection", "citation", "llm"},
           req[r].step \in {"retrieve", "assemble", "generating"},
           Raise(r, error, cause),
           error = "value" => \/ cause = "llm" /\ req[r].models # {}
                              \/ cause = "retrieval" /\ req[r].passages = <<>>
                              \/ cause = "citation" /\ ~Citable(req[r].passages),
           cause \in {"citation", "llm"} => req[r].inquiry.kind = "ask",
           cause \in {"retrieval", "no collection"} => req[r].passages = <<>>,
           cause = "no collection" => index = "absent"
    PROVE  AnswerInv'
<1> DEFINE x == req[r]
           reply == Verdict(x.inquiry.kind, error)
           y == [x EXCEPT !.step = "done", !.reply = reply, !.cause = cause]
<1>1. x \in Request /\ Sound(x) /\ Assured(x)
  BY DEF AnswerInv
<1>2. x.inquiry.valid /\ x.inquiry.question # "blank" /\ x.reply = "none"
  BY <1>1 DEF Sound, Progress, Doors
<1>3. /\ reply \in {"400", "502", "500"}
      /\ reply = "400" => error = "value"
      /\ reply = "502" => x.inquiry.kind = "retrieve"
      /\ reply = "500" => x.inquiry.kind # "retrieve"
  BY DEF Verdict
<1>4. x.inquiry.kind = "ask" <=> x.inquiry.kind # "retrieve"
  BY <1>1 DEF Request, InquiryType
<1>5. req' = [req EXCEPT ![r] = y]
  BY DEF Raise, End
<1> HIDE DEF reply
<1>6. Thrifty(y)
  BY <1>1, <1>3 DEF Sound, Thrifty, Request
<1>7. Explained(y)
  BY <1>1, <1>2, <1>3, <1>4 DEF Explained, Request
<1>8. y \in Request /\ Sound(y)
  BY <1>1, <1>3, <1>6, <1>7, Ended
<1>9. x.assured => cause # "no collection"
  BY <1>1 DEF Assured, AnswerInv, ServerSound
<1>10. y.step = "done" /\ y.reply # "503" /\ (y.assured => y.cause # "no collection")
  BY <1>1, <1>3, <1>9 DEF Request
<1> HIDE DEF y
<1> QED  BY <1>5, <1>8, <1>10, OneRecord

LEMMA RetrieveKeeps ==
    ASSUME AnswerInv, NEW r \in Requests, Retrieve(r)
    PROVE  AnswerInv'
<1> DEFINE x == req[r]
<1>1. x \in Request /\ Sound(x) /\ Assured(x) /\ x.step = "retrieve"
      /\ UNCHANGED <<server, index>>
  BY DEF AnswerInv, Retrieve
<1>2. x.inquiry.valid /\ x.reply = "none" /\ x.cause = "none" /\ x.passages = <<>>
      /\ x.inquiry.question # "blank" /\ x.text = "none" /\ x.asked = 0
      /\ x.prompt = <<>> /\ x.citations = <<>>
  BY <1>1 DEF Sound, Progress, Doors, Early
<1>3. CASE index = "absent" /\ Raise(r, "other", "no collection")
  BY <1>1, <1>2, <1>3, Raised
<1>4. ASSUME NEW error \in {"value", "other"}, Raise(r, error, "retrieval")
      PROVE AnswerInv'
  BY <1>1, <1>2, <1>4, Raised
<1>5. ASSUME NEW ps \in Findings,
             req' = [req EXCEPT ![r] = [@ EXCEPT
                       !.passages = ps,
                       !.step = IF req[r].inquiry.kind = "ask" THEN "assemble"
                                                               ELSE "items"]]
      PROVE AnswerInv'
  <2> DEFINE y == [x EXCEPT !.passages = ps,
                            !.step = IF x.inquiry.kind = "ask" THEN "assemble"
                                                               ELSE "items"]
  <2>1. ps \in Seq(PassageType)
    BY ServerAssumption
  <2>2. x.inquiry.kind # "ask" => x.inquiry.kind = "retrieve"
    BY <1>1 DEF Request, InquiryType
  <2>3. y \in Request
    BY <1>1, <2>1 DEF Request, Steps, Early, Asking
  <2>4. Progress(y)
    BY <1>1, <1>2, <2>2 DEF Sound, Progress, Doors, Early, Asking, Request
  <2>5. Grounded(y)
    BY <1>1, <1>2 DEF Grounded, Request
  <2>6. y.reply = "none" /\ y.text = "none" /\ y.asked = 0 /\ y.cause = "none"
        /\ (y.assured => server.vouched)
    BY <1>1, <1>2 DEF Assured, Request
  <2>7. req' = [req EXCEPT ![r] = y]
    BY <1>5
  <2> HIDE DEF y
  <2>8. Sound(y)
    BY <2>3, <2>4, <2>5, <2>6, Unreplied
  <2> QED  BY <1>1, <2>3, <2>6, <2>7, <2>8, OneRecord
<1> QED  BY <1>3, <1>4, <1>5 DEF Retrieve

LEMMA ItemsKeeps ==
    ASSUME AnswerInv, NEW r \in Requests, Items(r)
    PROVE  AnswerInv'
<1> DEFINE x == req[r]
           ps == x.passages
<1>1. x \in Request /\ Sound(x) /\ Assured(x) /\ x.step = "items"
      /\ UNCHANGED <<server, index>>
  BY DEF AnswerInv, Items
<1>2. x.inquiry.valid /\ x.reply = "none" /\ x.cause = "none"
      /\ x.inquiry.question # "blank" /\ x.inquiry.kind = "retrieve"
  BY <1>1 DEF Sound, Progress, Doors, Early
<1>3. ASSUME NEW reply \in {"items", "500", "missing_stable_id"},
             NEW cause \in {"none", "retrieval"}, End(r, reply, cause),
             reply = "500" => \E n \in DOMAIN ps : ~ps[n].complete,
             reply = "missing_stable_id" => ~Citable(ps)
      PROVE AnswerInv'
  <2> DEFINE y == [x EXCEPT !.step = "done", !.reply = reply, !.cause = cause]
  <2>1. Thrifty(y) /\ Explained(y)
    BY <1>1, <1>2, <1>3 DEF Sound, Thrifty, Explained, Request
  <2>2. y \in Request /\ Sound(y)
    BY <1>1, <2>1, Ended
  <2>3. y.step = "done" /\ y.reply # "503" /\ y.cause # "no collection"
    BY <1>1 DEF Request
  <2>4. req' = [req EXCEPT ![r] = y]
    BY <1>3 DEF End
  <2> HIDE DEF y
  <2> QED  BY <1>1, <2>2, <2>3, <2>4, OneRecord
<1>4. CASE End(r, "items", "none")
  BY <1>3, <1>4
<1>5. ASSUME NEW n \in Unfit(ps),
             End(r, IF ps[n].stable THEN "500" ELSE "missing_stable_id", "retrieval")
      PROVE AnswerInv'
  <2>1. n \in DOMAIN ps /\ (~ps[n].stable \/ ~ps[n].complete)
    BY DEF Unfit
  <2>2. CASE ps[n].stable
    BY <1>3, <1>5, <2>1, <2>2
  <2>3. CASE ~ps[n].stable
    <3>1. ~Citable(ps)
      BY <2>1, <2>3 DEF Citable
    <3> QED  BY <1>3, <1>5, <2>3, <3>1
  <2> QED  BY <2>2, <2>3
<1> QED  BY <1>4, <1>5 DEF Items

LEMMA AssembleKeeps ==
    ASSUME AnswerInv, NEW r \in Requests, Assemble(r)
    PROVE  AnswerInv'
<1> DEFINE x == req[r]
           ps == x.passages
<1>1. x \in Request /\ Sound(x) /\ Assured(x) /\ x.step = "assemble"
      /\ UNCHANGED <<server, index>>
  BY DEF AnswerInv, Assemble
<1>2. x.inquiry.valid /\ x.reply = "none" /\ x.cause = "none" /\ x.asked = 0
      /\ x.text = "none" /\ x.inquiry.question # "blank" /\ x.inquiry.kind = "ask"
      /\ x.prompt = <<>> /\ x.citations = <<>> /\ ps \in Seq(PassageType)
  BY <1>1 DEF Sound, Progress, Doors, Early, Asking, Request
<1>3. Len(ps) \in Nat /\ MinPassages \in Nat
  BY <1>2, ServerAssumption
<1>4. CASE Len(ps) < MinPassages
  <2> DEFINE y == [x EXCEPT !.step = "generate"]
  <2>1. y \in Request
    BY <1>1 DEF Request, Steps, Early, Asking
  <2>2. Progress(y)
    <3>1. y.step = "generate" /\ y.passages = ps /\ y.inquiry = x.inquiry
          /\ y.reply = "none" /\ y.cause = "none" /\ y.text = "none" /\ y.asked = 0
      BY <1>1, <1>2 DEF Request
    <3> HIDE DEF y
    <3> QED  BY <1>2, <1>3, <1>4, <3>1 DEF Progress, Doors, Early, Asking
  <2>3. Grounded(y)
    BY <1>1, <1>2 DEF Grounded, Request
  <2>4. y.reply = "none" /\ y.text = "none" /\ y.asked = 0 /\ y.cause = "none"
        /\ (y.assured => server.vouched)
    BY <1>1, <1>2 DEF Assured, Request
  <2>5. req' = [req EXCEPT ![r] = y]
    BY <1>4 DEF Assemble
  <2> HIDE DEF y
  <2>6. Sound(y)
    BY <2>1, <2>2, <2>3, <2>4, Unreplied
  <2> QED  BY <1>1, <2>1, <2>4, <2>5, <2>6, OneRecord
<1>5. CASE ~(Len(ps) < MinPassages) /\ Citable(ps)
  <2> DEFINE y == [x EXCEPT !.step = "generate", !.prompt = Sources(ps),
                            !.citations = Citations(ps)]
  <2>1. y \in Request
    BY <1>1, <1>2, SourcesTyped DEF Request, Steps, Early, Asking
  <2>2. /\ y.passages = ps /\ y.prompt = Sources(ps) /\ y.citations = Citations(ps)
        /\ y.step = "generate" /\ y.reply = "none" /\ y.cause = "none"
        /\ y.text = "none" /\ y.asked = 0 /\ y.inquiry = x.inquiry
        /\ (y.assured => server.vouched)
    BY <1>1, <1>2 DEF Assured, Request
  <2>3. req' = [req EXCEPT ![r] = y]
    BY <1>5 DEF Assemble
  <2> HIDE DEF y
  <2>4. Progress(y)
    BY <1>2, <2>2 DEF Progress, Doors, Early, Asking
  <2>5. Grounded(y)
    BY <1>3, <1>5, <2>2 DEF Grounded
  <2>6. Sound(y)
    BY <2>1, <2>2, <2>4, <2>5, Unreplied
  <2> QED  BY <1>1, <2>1, <2>2, <2>3, <2>6, OneRecord
<1>6. CASE ~(Len(ps) < MinPassages) /\ ~Citable(ps)
  <2>1. Raise(r, "value", "citation")
    BY <1>6 DEF Assemble
  <2> QED  BY <1>1, <1>2, <1>6, <2>1, Raised
<1> QED  BY <1>4, <1>5, <1>6

LEMMA AskKeeps ==
    ASSUME AnswerInv, NEW r \in Requests, Ask(r)
    PROVE  AnswerInv'
<1>1. Together(r) \subseteq Requests /\ ServerSound'
  BY DEF Together, Generating, AnswerInv, ServerSound, Ask
<1>2. ASSUME NEW q \in Requests
      PROVE  /\ req'[q] \in Request /\ Sound(req'[q])
             /\ req'[q].assured =>
                  /\ req'[q].step \notin {"idle", "done"} => server'.vouched
                  /\ req'[q].reply # "503" /\ req'[q].cause # "no collection"
  <2> DEFINE x == req[q]
  <2>1. x \in Request /\ Sound(x) /\ Assured(x) /\ server' = server
    BY DEF AnswerInv, Ask
  <2>2. CASE q = r
    <3> DEFINE y == [x EXCEPT !.step = "generating", !.models = @ \cup {"llm"},
                              !.asked = @ + 1, !.beside = Together(r)]
    <3>1. x.step = "generate" /\ req'[q] = y
      BY <2>2 DEF Ask
    <3>2. /\ x.inquiry.valid /\ x.reply = "none" /\ x.cause = "none" /\ x.asked = 0
          /\ x.text = "none" /\ x.inquiry.question # "blank"
          /\ x.inquiry.kind = "ask"
          /\ Len(x.passages) >= MinPassages => x.prompt = Sources(x.passages)
      BY <2>1, <3>1 DEF Sound, Progress, Doors, Early, Asking
    <3>3. y \in Request
      <4>1. x.asked + 1 = 1
        BY <3>2
      <4>2. x.asked + 1 \in {0, 1} /\ x.models \cup {"llm"} \in SUBSET {"translator", "llm"}
        BY <2>1, <4>1 DEF Request
      <4>3. "generating" \in Steps
        BY DEF Steps, Asking
      <4> QED  BY <1>1, <2>1, <4>2, <4>3 DEF Request
    <3>4. /\ y.step = "generating" /\ y.models # {} /\ y.inquiry = x.inquiry /\ y.reply = "none"
          /\ y.cause = "none" /\ y.text = "none" /\ y.passages = x.passages
          /\ y.prompt = x.prompt /\ y.citations = x.citations
          /\ y.assured = x.assured
      BY <2>1, <3>2 DEF Request
    <3>5. y.assured => server.vouched
      BY <2>1, <3>1, <3>4 DEF Assured
    <3> HIDE DEF y
    <3>6. Progress(y)
      BY <3>2, <3>4 DEF Progress, Doors, Early, Asking
    <3>7. Grounded(y)
      BY <2>1, <3>4 DEF Sound, Grounded
    <3>8. Sound(y)
      BY <3>2, <3>3, <3>4, <3>6, <3>7, Unreplied
    <3> QED  BY <2>1, <3>1, <3>3, <3>4, <3>5, <3>8
  <2>3. CASE q # r /\ q \in Together(r)
    <3> DEFINE y == [x EXCEPT !.beside = @ \cup {r}]
    <3>1. req'[q] = y
      BY <2>3 DEF Ask
    <3>2. y \in Request
      BY <2>1 DEF Request
    <3>3. /\ y.step = x.step /\ y.inquiry = x.inquiry /\ y.reply = x.reply
          /\ y.cause = x.cause /\ y.text = x.text /\ y.passages = x.passages
          /\ y.prompt = x.prompt /\ y.citations = x.citations /\ y.asked = x.asked
          /\ y.models = x.models /\ y.assured = x.assured /\ y.beside # {}
      BY <2>1 DEF Request
    <3> HIDE DEF y
    <3>4. Progress(y) /\ Grounded(y)
      BY <2>1, <3>3 DEF Sound, Progress, Grounded
    <3>5. Thrifty(y) /\ Faithful(y)
      BY <2>1, <3>3 DEF Sound, Thrifty, Faithful
    <3>6. Explained(y)
      BY <2>1, <3>3 DEF Sound, Explained
    <3>7. Sound(y)
      BY <3>2, <3>4, <3>5, <3>6 DEF Sound
    <3> QED  BY <2>1, <3>1, <3>2, <3>3, <3>7 DEF Assured
  <2>4. CASE q # r /\ q \notin Together(r)
    BY <2>1, <2>4 DEF Ask, Assured
  <2> QED  BY <2>2, <2>3, <2>4
<1>3. req' \in [Requests -> Request]
  BY <1>2 DEF Ask
<1> QED
  BY <1>1, <1>2, <1>3, EveryRecord

LEMMA GenerateKeeps ==
    ASSUME AnswerInv, NEW r \in Requests, Generate(r)
    PROVE  AnswerInv'
<1> DEFINE x == req[r]
<1>1. x \in Request /\ Sound(x) /\ Assured(x) /\ x.step = "generating"
      /\ UNCHANGED <<server, index>>
  BY DEF AnswerInv, Generate
<1>2. /\ x.inquiry.valid /\ x.reply = "none" /\ x.cause = "none"
      /\ x.inquiry.question # "blank" /\ x.inquiry.kind = "ask"
      /\ Len(x.passages) >= MinPassages => x.prompt = Sources(x.passages)
      /\ x.passages \in Seq(PassageType)
  BY <1>1 DEF Sound, Progress, Doors, Early, Asking, Request
<1>3. Len(x.passages) \in Nat /\ MinPassages \in Nat
  BY <1>2, ServerAssumption
<1>4. x.models # {} \/ x.models = {}
  OBVIOUS
<1>5. ASSUME NEW text \in {"own", "empty", "mixed"}, Answer(r, text),
             text = "mixed" => x.beside # {}
      PROVE AnswerInv'
  <2> DEFINE reply == IF Len(x.passages) < MinPassages THEN "deflected" ELSE "cited"
             y == [x EXCEPT !.step = "done", !.text = text, !.reply = reply]
  <2>1. req' = [req EXCEPT ![r] = y]
    BY <1>5 DEF Answer
  <2>2. /\ reply \in {"deflected", "cited"}
        /\ reply = "deflected" => Len(x.passages) < MinPassages
        /\ reply = "cited" => Len(x.passages) >= MinPassages
    BY <1>3
  <2> HIDE DEF reply
  <2>3. y \in Request
    BY <1>1, <2>2 DEF Request, Steps
  <2>4. /\ y.step = "done" /\ y.inquiry = x.inquiry /\ y.reply = reply
        /\ y.cause = "none" /\ y.text = text /\ y.passages = x.passages
        /\ y.prompt = x.prompt /\ y.citations = x.citations
        /\ y.beside = x.beside
    BY <1>1, <1>2 DEF Request
  <2> HIDE DEF y
  <2>5. Grounded(y)
    BY <1>1, <2>4 DEF Sound, Grounded
  <2>6. Progress(y)
    BY <2>4 DEF Progress, Doors, Early, Asking
  <2>7. Thrifty(y) /\ Faithful(y)
    BY <1>2, <1>5, <2>2, <2>4 DEF Thrifty, Faithful
  <2>8. Explained(y)
    BY <1>2, <2>2, <2>4 DEF Explained
  <2>9. Sound(y)
    BY <2>3, <2>5, <2>6, <2>7, <2>8 DEF Sound
  <2> QED  BY <1>1, <2>1, <2>2, <2>3, <2>4, <2>9, OneRecord
<1>6. ASSUME NEW error \in {"value", "other"}, Raise(r, error, "llm")
      PROVE AnswerInv'
  BY <1>1, <1>2, <1>6, Raised DEF Sound, Progress
<1>7. CASE \E answer \in Answers(server.conf.llm) :
            CASE answer \in Unreadable -> Raise(r, "value", "llm")
              [] answer = "failed" -> Raise(r, "other", "llm")
              [] OTHER -> Answer(r, IF HasText(server.conf.llm, answer)
                                    THEN "own" ELSE "empty")
  BY <1>5, <1>6, <1>7
<1>8. CASE x.beside # {} /\ (Answer(r, "mixed") \/ Raise(r, "other", "llm"))
  BY <1>5, <1>6, <1>8
<1> QED  BY <1>7, <1>8 DEF Generate

-------------------------------------------------------------------------------
(* Steps of the server *)

LEMMA StopKeeps ==
    ASSUME AnswerInv, Stop
    PROVE  AnswerInv'
<1>1. ServerSound'
  BY DEF Stop, Down, ServerSound, AnswerInv
<1>2. ASSUME NEW q \in Requests
      PROVE  /\ req'[q] \in Request /\ Sound(req'[q])
             /\ req'[q].assured =>
                  /\ req'[q].step \notin {"idle", "done"} => server'.vouched
                  /\ req'[q].reply # "503" /\ req'[q].cause # "no collection"
  <2> DEFINE x == req[q]
  <2>1. x \in Request /\ Sound(x) /\ Assured(x)
    BY DEF AnswerInv
  <2>2. CASE Working(q)
    <3> DEFINE y == [x EXCEPT !.step = "done", !.reply = "lost"]
    <3>1. req'[q] = y
      BY <2>2 DEF Stop
    <3>2. x.reply = "none" /\ x.cause = "none" /\ x.text = "none"
      BY <2>1, <2>2 DEF Sound, Progress, Working
    <3>3. y \in Request
      BY <2>1 DEF Request, Steps
    <3>4. /\ y.step = "done" /\ y.inquiry = x.inquiry /\ y.reply = "lost"
          /\ y.cause = "none" /\ y.text = "none" /\ y.passages = x.passages
          /\ y.prompt = x.prompt /\ y.citations = x.citations /\ y.asked = x.asked
      BY <2>1, <3>2 DEF Request
    <3> HIDE DEF y
    <3>5. Grounded(y) /\ Progress(y)
      BY <2>1, <3>4 DEF Sound, Grounded, Progress, Doors, Early, Asking
    <3>6. Thrifty(y) /\ Faithful(y) /\ Explained(y)
      BY <2>1, <3>4 DEF Sound, Thrifty, Faithful, Explained
    <3>7. Sound(y)
      BY <3>3, <3>5, <3>6 DEF Sound
    <3> QED  BY <3>1, <3>3, <3>4, <3>7
  <2>3. CASE ~Working(q)
    BY <2>1, <2>3 DEF Stop, Working, Assured
  <2> QED  BY <2>2, <2>3
<1>3. req' \in [Requests -> Request]
  BY <1>2 DEF Stop
<1> QED
  BY <1>1, <1>2, <1>3, EveryRecord

(* A step that leaves the requests alone and vouches for no less. *)
LEMMA ServerSteps ==
    ASSUME AnswerInv, ServerSound', req' = req, server.vouched => server'.vouched
    PROVE  AnswerInv'
<1>1. ASSUME NEW q \in Requests
      PROVE  /\ Sound(req'[q])
             /\ req'[q].assured =>
                  /\ req'[q].step \notin {"idle", "done"} => server'.vouched
                  /\ req'[q].reply # "503" /\ req'[q].cause # "no collection"
  BY DEF AnswerInv, Assured
<1> QED
  BY <1>1, EveryRecord DEF AnswerInv

LEMMA StartKeeps ==
    ASSUME AnswerInv, NEW c \in Configurations, Start(c) \/ StartBare(c)
    PROVE  AnswerInv'
<1>1. ServerSound'
  <2>1. CASE Start(c)
    BY <2>1 DEF Start, ServerSound, AnswerInv
  <2>2. CASE StartBare(c)
    BY <2>2 DEF StartBare, ServerSound, AnswerInv
  <2> QED  BY <2>1, <2>2
<1>2. req' = req /\ ~server.vouched
  BY DEF Start, StartBare, ServerSound, AnswerInv
<1> QED
  BY <1>1, <1>2, ServerSteps

LEMMA VouchKeeps ==
    ASSUME AnswerInv, Vouch
    PROVE  AnswerInv'
<1>1. ServerSound'
  BY DEF Vouch, ServerSound, AnswerInv
<1>2. req' = req /\ server'.vouched
  BY DEF Vouch, ServerSound, AnswerInv
<1> QED
  BY <1>1, <1>2, ServerSteps

LEMMA IngestKeeps ==
    ASSUME AnswerInv, Ingest
    PROVE  AnswerInv'
<1>1. ServerSound'
  BY DEF Ingest, ServerSound, AnswerInv
<1> QED
  BY <1>1, ServerSteps DEF Ingest

LEMMA NextKeeps ==
    ASSUME AnswerInv, [Next]_vars
    PROVE  AnswerInv'
<1>1. ASSUME NEW c \in Configurations, Start(c) \/ StartBare(c) PROVE AnswerInv'
  BY <1>1, StartKeeps
<1>2. CASE Stop
  BY <1>2, StopKeeps
<1>3. CASE Vouch
  BY <1>3, VouchKeeps
<1>4. CASE Ingest
  BY <1>4, IngestKeeps
<1>5. ASSUME NEW r \in Requests, Receive(r) PROVE AnswerInv'
  BY <1>5, ReceiveKeeps
<1>6. ASSUME NEW r \in Requests, Step(r) PROVE AnswerInv'
  BY <1>6, RefuseKeeps, AdmitKeeps, PrepareKeeps, TranslateKeeps, RetrieveKeeps,
     ItemsKeeps, AssembleKeeps, AskKeeps, GenerateKeeps DEF Step
<1>7. CASE UNCHANGED vars
  <2>1. ServerSound'
    BY <1>7 DEF vars, ServerSound, AnswerInv
  <2> QED  BY <1>7, <2>1, ServerSteps DEF vars
<1> QED
  BY <1>1, <1>2, <1>3, <1>4, <1>5, <1>6, <1>7 DEF Next

(* The invariant holds of every server, whatever its settings, whatever is *)
(* asked of it and whatever retrieval finds.                               *)
THEOREM AnswerInvHolds == Spec => []AnswerInv
<1>1. AnswerInv /\ [Next]_vars => AnswerInv'
  BY NextKeeps
<1> QED  BY <1>1, InitSound, PTL DEF Spec

-------------------------------------------------------------------------------
(* The properties *)

(* Citations match the sources that the generator saw, for every list of   *)
(* passages and every number of concurrent requests.                       *)
THEOREM EveryAnswerItsSources == Spec => []AnswersItsSources
<1>1. AnswerInv => AnswersItsSources
  <2> SUFFICES ASSUME AnswerInv, NEW r \in Requests,
                      req[r].reply \in {"cited", "deflected"}
               PROVE  /\ DOMAIN req[r].citations = DOMAIN req[r].prompt
                      /\ \A n \in DOMAIN req[r].prompt :
                           LET c == req[r].citations[n]
                               s == req[r].prompt[n]
                           IN  /\ c.marker = s.marker /\ c.chunk = s.chunk
                               /\ c.is_footnote = s.note
                      /\ req[r].reply = "deflected" => req[r].prompt = <<>>
                      /\ req[r].reply = "cited" =>
                           DOMAIN req[r].prompt = DOMAIN req[r].passages
                      /\ req[r].text = "mixed" => req[r].beside # {}
    BY DEF AnswersItsSources
  <2> DEFINE x == req[r]
             ps == x.passages
  <2>1. x \in Request /\ Sound(x) /\ ps \in Seq(PassageType)
    BY DEF AnswerInv, Request
  <2>2. Len(ps) \in Nat /\ MinPassages \in Nat
    BY <2>1, ServerAssumption
  <2>3. DOMAIN Sources(ps) = DOMAIN ps /\ DOMAIN Citations(ps) = DOMAIN ps
    BY <2>1, SourcesTyped
  <2>4. x.text = "mixed" => x.beside # {}
    BY <2>1 DEF Sound, Faithful
  <2>5. CASE x.prompt = <<>> /\ x.citations = <<>>
    <3>1. DOMAIN x.prompt = {} /\ DOMAIN x.citations = {}
      BY <2>5
    <3>2. x.reply = "cited" => DOMAIN x.prompt = DOMAIN ps
      BY <2>1, <2>3 DEF Sound, Faithful
    <3> QED  BY <2>4, <2>5, <3>1, <3>2
  <2>6. CASE /\ x.prompt = Sources(ps) /\ x.citations = Citations(ps)
             /\ Citable(ps) /\ Len(ps) >= MinPassages
    <3>1. x.reply # "deflected"
      BY <2>1, <2>2, <2>6 DEF Sound, Faithful
    <3>2. ASSUME NEW n \in DOMAIN ps
          PROVE  /\ Citations(ps)[n].marker = Sources(ps)[n].marker
                 /\ Citations(ps)[n].chunk = Sources(ps)[n].chunk
                 /\ Citations(ps)[n].is_footnote = Sources(ps)[n].note
      BY DEF Sources, Citations
    <3> QED  BY <2>3, <2>4, <2>6, <3>1, <3>2
  <2> QED  BY <2>1, <2>5, <2>6 DEF Sound, Grounded
<1> QED  BY <1>1, AnswerInvHolds, PTL

(* No model is asked in vain, however many requests share it. *)
THEOREM NothingEverInVain == Spec => []NothingInVain
<1>1. AnswerInv => NothingInVain
  <2> SUFFICES ASSUME AnswerInv, NEW r \in Requests
               PROVE  /\ req[r].reply \in {"401", "422", "503"} \/ req[r].cause = "token" =>
                           req[r].models = {}
                      /\ req[r].asked <= 1
                      /\ req[r].asked = 1 =>
                           /\ req[r].inquiry.kind = "ask"
                           /\ DOMAIN req[r].citations = DOMAIN req[r].prompt
                           /\ req[r].prompt # <<>> => Citable(req[r].passages)
    BY DEF NothingInVain
  <2> DEFINE x == req[r]
  <2>1. x \in Request /\ Sound(x) /\ x.passages \in Seq(PassageType)
    BY DEF AnswerInv, Request
  <2>2. x.asked <= 1
    <3>1. x.asked \in {0, 1}
      BY <2>1 DEF Request
    <3> QED  BY <3>1
  <2>3. Thrifty(x) /\ Grounded(x)
    BY <2>1 DEF Sound
  <2>4. DOMAIN x.citations = DOMAIN x.prompt
    BY <2>1, <2>3, SourcesTyped DEF Grounded
  <2> QED  BY <2>2, <2>3, <2>4 DEF Thrifty, Grounded
<1> QED  BY <1>1, AnswerInvHolds, PTL

(* Every error has the causes that its status stands for, and whoever      *)
(* comes after a good /health misses neither service nor collection.       *)
THEOREM EveryVerdictExplained == Spec => []VerdictExplained
<1>1. AnswerInv => VerdictExplained
  <2> SUFFICES ASSUME AnswerInv PROVE VerdictExplained
    OBVIOUS
  <2>1. \A r \in Requests : Explained(req[r]) /\ Assured(req[r])
    BY DEF AnswerInv, Sound
  <2> QED  BY <2>1 DEF VerdictExplained, Explained, Assured
<1> QED  BY <1>1, AnswerInvHolds, PTL
=============================================================================
