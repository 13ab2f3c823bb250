------------------------------ MODULE Answering ------------------------------
(***************************************************************************)
(* The server from its start to its replies: what create_app_from_settings *)
(* needs, whom the handlers of POST /retrieve and POST /ask let in, what   *)
(* they make of the models they call, of the passages they get and of what *)
(* goes wrong.                                                             *)
(*                                                                         *)
(* The handlers run in the threads of a pool and share one service, and so *)
(* one translator and one generator.  How passages are found is module     *)
(* Retrieval's business; here any of Findings may come back.               *)
(***************************************************************************)
EXTENDS Naturals, Sequences, FiniteSets

CONSTANTS
    Requests,
    Configurations,   \* the settings a server may be started with
    Inquiries,        \* what a client may send
    Findings,         \* the lists of passages that retrieval may return
    MinPassages,      \* min_passages
    MaxStarts         \* bound: servers started

Settings == {"embedding_api_key", "bm25_state", "root_expansion_state",
             "llm_api_key", "llm_api_model", "translator_api_model",
             "llm_gguf_path", "llm_ollama_model"}

ConfigurationType ==
    [guard : {"open", "ascii", "foreign"},   \* retrieve_api_token
     embedding : {"local", "openrouter"}, root : BOOLEAN,
     llm : {"memory", "llamacpp", "ollama", "openai_compatible"},
     translator : {"memory", "openai_compatible"},
     given : SUBSET Settings]

(* A "foreign" token has a character outside ASCII, as headers may. *)
InquiryType ==
    [kind : {"retrieve", "ask"}, token : {"absent", "wrong", "foreign", "right"},
     valid : BOOLEAN, question : {"blank", "arabic", "english"}]

(* A chunk with a page has a stable id; a book may lack an author or type. *)
PassageType ==
    [chunk : Nat, stable : BOOLEAN, complete : BOOLEAN, footnote : BOOLEAN]

ASSUME ServerAssumption ==
    /\ Configurations \subseteq ConfigurationType
    /\ Inquiries \subseteq InquiryType
    /\ Findings \subseteq Seq(PassageType)
    /\ MinPassages \in Nat /\ MaxStarts \in Nat

VARIABLES
    server,    \* the process, its settings, and whether /health said ok
    index,     \* the collection in Qdrant
    req,       \* the requests
    starts

vars == <<server, index, req, starts>>

Unset == [guard |-> "open", embedding |-> "local", root |-> FALSE,
          llm |-> "memory", translator |-> "memory", given |-> {}]

Down == [up |-> FALSE, wired |-> FALSE, conf |-> Unset, vouched |-> FALSE]

Unasked == [kind |-> "ask", token |-> "absent", valid |-> FALSE,
            question |-> "blank"]

Idle ==
    [step |-> "idle", inquiry |-> Unasked, assured |-> FALSE,
     passages |-> <<>>, prompt |-> <<>>, citations |-> <<>>,
     models |-> {}, asked |-> 0, beside |-> {}, text |-> "none",
     cause |-> "none", reply |-> "none"]

Init ==
    /\ server = Down
    /\ index = "absent"
    /\ req = [r \in Requests |-> Idle]
    /\ starts = 0

-------------------------------------------------------------------------------
(* The process *)

Needed(c) ==
    {"bm25_state"}
    \cup (IF c.root THEN {"root_expansion_state"} ELSE {})
    \cup (IF c.embedding = "openrouter" THEN {"embedding_api_key"} ELSE {})
    \cup (IF c.llm = "llamacpp" THEN {"llm_gguf_path"} ELSE {})
    \cup (IF c.llm = "ollama" THEN {"llm_ollama_model"} ELSE {})
    \cup (IF c.llm = "openai_compatible" THEN {"llm_api_key", "llm_api_model"} ELSE {})
    \cup (IF c.translator = "openai_compatible" THEN {"llm_api_key"} ELSE {})

(* build_general_qa_service raises for a setting or a file that is missing *)
(* and the process ends; the translator may take the generator's model.    *)
Complete(c) ==
    /\ Needed(c) \subseteq c.given
    /\ c.translator = "openai_compatible" =>
         {"translator_api_model", "llm_api_model"} \cap c.given # {}

Start(c) ==
    /\ ~server.up
    /\ starts < MaxStarts
    /\ Complete(c)
    /\ server' = [up |-> TRUE, wired |-> TRUE, conf |-> c, vouched |-> FALSE]
    /\ starts' = starts + 1
    /\ UNCHANGED <<index, req>>

(* The app that the module itself creates has no service. *)
StartBare(c) ==
    /\ ~server.up
    /\ starts < MaxStarts
    /\ server' = [up |-> TRUE, wired |-> FALSE, conf |-> c, vouched |-> FALSE]
    /\ starts' = starts + 1
    /\ UNCHANGED <<index, req>>

Working(r) == req[r].step \notin {"idle", "done"}

(* The process ends, and with it what it was about to answer. *)
Stop ==
    /\ server.up
    /\ server' = Down
    /\ req' = [r \in Requests |->
                 IF Working(r) THEN [req[r] EXCEPT !.step = "done", !.reply = "lost"]
                               ELSE req[r]]
    /\ UNCHANGED <<index, starts>>

(* Mutant of Vouch: health is that the components are there. *)
VouchUnlooked ==
    /\ server.up /\ server.wired
    /\ server' = [server EXCEPT !.vouched = TRUE]
    /\ UNCHANGED <<index, req, starts>>

(* GET /health says ok: a service is wired and the collection, which it    *)
(* asks Qdrant for, has points.                                            *)
Vouch ==
    /\ server.up /\ server.wired
    /\ index = "filled"
    /\ server' = [server EXCEPT !.vouched = TRUE]
    /\ UNCHANGED <<index, req, starts>>

(* Ingestion creates the collection, adds points and takes a book's away;  *)
(* nothing deletes the collection.                                         *)
Ingest ==
    /\ \/ index = "absent" /\ index' = "empty"
       \/ index = "empty" /\ index' = "filled"
       \/ index = "filled" /\ index' = "empty"
    /\ UNCHANGED <<server, req, starts>>

-------------------------------------------------------------------------------
(* How a request ends *)

End(r, reply, cause) ==
    req' = [req EXCEPT ![r] = [@ EXCEPT !.step = "done", !.reply = reply,
                                        !.cause = cause]]

(* ValueError is turned into 400 by both handlers; any other exception is  *)
(* a retryable error of /retrieve, and of /ask a plain server error.       *)
Verdict(kind, error) ==
    IF error = "value" THEN "400" ELSE IF kind = "retrieve" THEN "502" ELSE "500"

Raise(r, error, cause) == End(r, Verdict(req[r].inquiry.kind, error), cause)

-------------------------------------------------------------------------------
(* The handlers' doors *)

Receive(r) ==
    /\ server.up
    /\ req[r].step = "idle"
    /\ \E q \in Inquiries :
         req' = [req EXCEPT ![r] = [@ EXCEPT !.step = "received", !.inquiry = q,
                                             !.assured = server.vouched]]
    /\ UNCHANGED <<server, index, starts>>

(* Only /retrieve asks for the token, if the settings have one. *)
Guarded(q) == q.kind = "retrieve" /\ server.conf.guard # "open"

(* compare_digest raises TypeError if either string is not ASCII, and      *)
(* nothing catches it.                                                     *)
Incomparable(q) ==
    /\ Guarded(q)
    /\ q.token # "absent"
    /\ "foreign" \in {q.token, server.conf.guard}

Authorised(q) ==
    Guarded(q) => q.token = "right" /\ ~Incomparable(q)

(* Dependencies in their order, then the body. *)
Refusal(q) ==
    IF Incomparable(q) THEN "500"
    ELSE IF ~Authorised(q) THEN "401" ELSE IF ~server.wired THEN "503" ELSE "422"

Welcome(q) == Authorised(q) /\ server.wired /\ q.valid

Refuse(r) ==
    /\ req[r].step = "received"
    /\ LET q == req[r].inquiry
       IN  /\ ~Welcome(q)
           /\ End(r, Refusal(q), IF Incomparable(q) THEN "token" ELSE "client")
    /\ UNCHANGED <<server, index, starts>>

Admit(r) ==
    /\ req[r].step = "received"
    /\ Welcome(req[r].inquiry)
    /\ req' = [req EXCEPT ![r].step = "question"]
    /\ UNCHANGED <<server, index, starts>>

-------------------------------------------------------------------------------
(* The models behind an HTTP interface, and the one in the process *)

(* "said" and "legacy" have a text, in a message or beside it; "nothing"   *)
(* and "blank" have none; "list" is JSON but no object, "garbled" is no    *)
(* JSON; "failed" is an HTTP error, no connection or a broken one; llama   *)
(* raises "overlong" for a prompt that is longer than its context.         *)
Answers(backend) ==
    CASE backend = "memory" -> {"said"}
      [] backend = "llamacpp" -> {"said", "blank", "nothing", "overlong", "failed"}
      [] OTHER -> {"said", "legacy", "blank", "nothing", "list", "garbled", "failed"}

(* JSONDecodeError and UnicodeDecodeError are ValueErrors. *)
Unreadable == {"list", "garbled", "overlong"}

(* Ollama's client looks into the message alone. *)
HasText(backend, answer) ==
    \/ answer = "said"
    \/ answer = "legacy" /\ backend # "ollama"

Prepare(r) ==
    /\ req[r].step = "question"
    /\ LET q == req[r].inquiry.question
       IN  IF q = "blank" THEN Raise(r, "value", "client")
           ELSE req' = [req EXCEPT ![r].step =
                          IF q = "english" THEN "translate" ELSE "retrieve"]
    /\ UNCHANGED <<server, index, starts>>

(* A translation without text is a ValueError too. *)
Translate(r) ==
    /\ req[r].step = "translate"
    /\ \E answer \in Answers(server.conf.translator) :
         \/ /\ HasText(server.conf.translator, answer)
            /\ req' = [req EXCEPT ![r] = [@ EXCEPT !.step = "retrieve",
                                                   !.models = {"translator"}]]
         \/ /\ ~HasText(server.conf.translator, answer)
            /\ req' = [req EXCEPT ![r] = [@ EXCEPT
                         !.step = "done", !.models = {"translator"},
                         !.cause = "translator",
                         !.reply = Verdict(req[r].inquiry.kind,
                                     IF answer = "failed" THEN "other" ELSE "value")]]
    /\ UNCHANGED <<server, index, starts>>

(* retrieve_with_outcome after the translation; a collection that is not   *)
(* there is an error.                                                      *)
Retrieve(r) ==
    /\ req[r].step = "retrieve"
    /\ \/ index = "absent" /\ Raise(r, "other", "no collection")
       \/ \E ps \in Findings :
            /\ index # "absent" /\ (index = "empty" => ps = <<>>)
            /\ req' = [req EXCEPT ![r] = [@ EXCEPT
                         !.passages = ps,
                         !.step = IF req[r].inquiry.kind = "ask" THEN "assemble"
                                                                 ELSE "items"]]
       \/ \E error \in {"value", "other"} : Raise(r, error, "retrieval")
    /\ UNCHANGED <<server, index, starts>>

-------------------------------------------------------------------------------
(* POST /retrieve: passages become items *)

(* The first passage without a stable id, or with a field the response     *)
(* model does not take for None, ends the list; only the first is turned   *)
(* into an error envelope.                                                 *)
Unfit(ps) == {n \in DOMAIN ps : ~ps[n].stable \/ ~ps[n].complete}

Items(r) ==
    /\ req[r].step = "items"
    /\ LET ps == req[r].passages
       IN  \/ Unfit(ps) = {} /\ End(r, "items", "none")
           \/ \E n \in Unfit(ps) :
                /\ \A m \in Unfit(ps) : n <= m
                /\ End(r, IF ps[n].stable THEN "500" ELSE "missing_stable_id",
                       "retrieval")
    /\ UNCHANGED <<server, index, starts>>

-------------------------------------------------------------------------------
(* POST /ask: AnswerAssembler *)

Sources(ps) ==
    [n \in DOMAIN ps |-> [marker |-> n, chunk |-> ps[n].chunk,
                          note |-> ps[n].footnote]]

(* Mutant of Citations: markers count from zero. *)
CitationsFromZero(ps) ==
    [n \in DOMAIN ps |-> [marker |-> n - 1, chunk |-> ps[n].chunk,
                          is_footnote |-> ps[n].footnote]]

Citations(ps) ==
    [n \in DOMAIN ps |-> [marker |-> n, chunk |-> ps[n].chunk,
                          is_footnote |-> ps[n].footnote]]

Citable(ps) == \A n \in DOMAIN ps : ps[n].stable

(* Mutant of Assemble: the citations are made after the answer. *)
AssembleUncited(r) ==
    /\ req[r].step = "assemble"
    /\ req' = [req EXCEPT ![r] = [@ EXCEPT
                 !.step = "generate", !.prompt = Sources(req[r].passages),
                 !.citations = IF Citable(req[r].passages)
                               THEN Citations(req[r].passages) ELSE <<>>]]
    /\ UNCHANGED <<server, index, starts>>

Assemble(r) ==
    /\ req[r].step = "assemble"
    /\ LET ps == req[r].passages
       IN  IF Len(ps) < MinPassages
           THEN req' = [req EXCEPT ![r].step = "generate"]
           ELSE IF Citable(ps)
           THEN req' = [req EXCEPT ![r] = [@ EXCEPT !.step = "generate",
                                                    !.prompt = Sources(ps),
                                                    !.citations = Citations(ps)]]
           ELSE Raise(r, "value", "citation")
    /\ UNCHANGED <<server, index, starts>>

Generating == {r \in Requests : req[r].step = "generating"}

(* Nothing keeps two threads from calling the one Llama object at a time. *)
Together(r) == IF server.conf.llm = "llamacpp" THEN Generating ELSE {}

Ask(r) ==
    /\ req[r].step = "generate"
    /\ req' = [q \in Requests |->
                 IF q = r
                 THEN [req[r] EXCEPT !.step = "generating",
                                     !.models = @ \cup {"llm"},
                                     !.asked = @ + 1, !.beside = Together(r)]
                 ELSE IF q \in Together(r)
                 THEN [req[q] EXCEPT !.beside = @ \cup {r}]
                 ELSE req[q]]
    /\ UNCHANGED <<server, index, starts>>

Answer(r, text) ==
    req' = [req EXCEPT ![r] = [@ EXCEPT
              !.step = "done", !.text = text,
              !.reply = IF Len(req[r].passages) < MinPassages THEN "deflected"
                                                              ELSE "cited"]]

(* An answer without text is an answer; what comes of two calls into one   *)
(* Llama at a time is anyone's guess.                                      *)
Generate(r) ==
    /\ req[r].step = "generating"
    /\ \/ \E answer \in Answers(server.conf.llm) :
            CASE answer \in Unreadable -> Raise(r, "value", "llm")
              [] answer = "failed" -> Raise(r, "other", "llm")
              [] OTHER -> Answer(r, IF HasText(server.conf.llm, answer)
                                    THEN "own" ELSE "empty")
       \/ req[r].beside # {} /\ (Answer(r, "mixed") \/ Raise(r, "other", "llm"))
    /\ UNCHANGED <<server, index, starts>>

-------------------------------------------------------------------------------

Step(r) ==
    \/ Refuse(r) \/ Admit(r)    \/ Prepare(r) \/ Translate(r) \/ Retrieve(r)
    \/ Items(r)  \/ Assemble(r) \/ Ask(r)     \/ Generate(r)

Next ==
    \/ \E c \in Configurations : Start(c) \/ StartBare(c)
    \/ Stop \/ Vouch \/ Ingest
    \/ \E r \in Requests : Receive(r) \/ Step(r)

Spec == Init /\ [][Next]_vars

-------------------------------------------------------------------------------
(* Properties *)

(***************************************************************************)
(* "matches the [n] numbering in the prompt/answer" (answer.py:24): each   *)
(* citation stands for the source that the generator saw under its number, *)
(* an editor's note for one that was marked so; an answer deflects exactly *)
(* if evidence was thin, and is then neither told of sources nor cited;    *)
(* and it was generated for this request, unless the one Llama was in use  *)
(* by two.                                                                 *)
(***************************************************************************)
AnswersItsSources ==
    \A r \in Requests : req[r].reply \in {"cited", "deflected"} =>
        /\ DOMAIN req[r].citations = DOMAIN req[r].prompt
        /\ \A n \in DOMAIN req[r].prompt :
             LET c == req[r].citations[n]
                 s == req[r].prompt[n]
             IN  /\ c.marker = s.marker /\ c.chunk = s.chunk
                 /\ c.is_footnote = s.note
        /\ req[r].reply = "deflected" => req[r].prompt = <<>>
        /\ req[r].reply = "cited" =>
             DOMAIN req[r].prompt = DOMAIN req[r].passages
        /\ req[r].text = "mixed" => req[r].beside # {}

(***************************************************************************)
(* No model is asked in vain: none for a request that ends at the door,    *)
(* refused or with an error, the generator at most once, never for         *)
(* /retrieve, and only when every source it is shown can be cited.         *)
(***************************************************************************)
NothingInVain ==
    \A r \in Requests :
        /\ req[r].reply \in {"401", "422", "503"} \/ req[r].cause = "token" =>
             req[r].models = {}
        /\ req[r].asked <= 1
        /\ req[r].asked = 1 =>
             /\ req[r].inquiry.kind = "ask"
             /\ DOMAIN req[r].citations = DOMAIN req[r].prompt
             /\ req[r].prompt # <<>> => Citable(req[r].passages)

(***************************************************************************)
(* The error envelope invites a retry only if something failed before any  *)
(* passage was at hand, and does not for a passage without a stable id,    *)
(* which stays without one until the book is ingested again; a request     *)
(* that comes after /health said ok fails for want of neither service nor  *)
(* collection; and 400 and 500 have their causes, which cross: 400 is also *)
(* what an unreadable answer of a model, or a chunk that cannot be cited,  *)
(* comes to, and /retrieve ends with 500 for a passage with a field        *)
(* missing and for a token that is not ASCII, be it the one that was       *)
(* presented or the one that some settings ask for.                        *)
(***************************************************************************)
VerdictExplained ==
    \A r \in Requests :
        LET ps == req[r].passages
            q == req[r].inquiry
        IN  /\ req[r].reply = "502" =>
                 /\ q.kind = "retrieve" /\ ps = <<>>
                 /\ req[r].cause \in {"translator", "retrieval", "no collection"}
            /\ req[r].reply = "missing_stable_id" =>
                 q.kind = "retrieve" /\ ~Citable(ps)
            /\ req[r].reply = "400" =>
                 \/ q.question = "blank" /\ req[r].models = {}
                 \/ req[r].cause \in {"translator", "llm"} /\ req[r].models # {}
                 \/ req[r].cause = "retrieval" /\ ps = <<>>
                 \/ req[r].cause = "citation" /\ ~Citable(ps)
            /\ req[r].reply = "500" =>
                 \/ q.kind = "ask" /\ req[r].cause \notin {"client", "token"}
                 \/ \E n \in DOMAIN ps : ~ps[n].complete
                 \/ /\ req[r].cause = "token"
                    /\ q.kind = "retrieve" /\ q.token # "absent"
                    /\ \/ q.token = "foreign"
                       \/ \E c \in Configurations : c.guard = "foreign"
            /\ req[r].reply \in {"cited", "deflected", "items", "502", "400"} =>
                 q.valid /\ (q.question = "blank" => req[r].reply = "400")
            /\ req[r].assured =>
                 req[r].reply # "503" /\ req[r].cause # "no collection"

=============================================================================
