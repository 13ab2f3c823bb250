--------------------------- MODULE QuantComparison ---------------------------
(***************************************************************************)
(* compare-qwen-quant: one Qwen3 variant after the other is loaded, embeds *)
(* the texts and is closed again.  A variant that does not load is         *)
(* recorded and passed over; an embedding that fails ends the command.     *)
(* The first baseline that loads is what later ones are compared with, and *)
(* the table of measurements yields one recommendation.                    *)
(***************************************************************************)
EXTENDS EvalFiles

CONSTANT Selections    \* the sets of variants the options may enable

VARIABLE quant         \* the command's arguments and where it stands

(* default_variant_specs *)
DefaultOrder == <<"fp16-baseline", "int8", "int4", "gguf-q8-baseline", "gguf">>

Baselines == {"fp16-baseline", "gguf-q8-baseline"}

ASSUME SelectionsAssumption ==
    \A S \in Selections : S # {} /\ S \subseteq {DefaultOrder[i] : i \in 1..5}

IsBaseline(v) == v \in Baselines

Listed(v) == CHOOSE i \in 1..5 : DefaultOrder[i] = v

(* Mutant of BaselineFirst: variants are measured in the options' order. *)
AsListed(v, w) == Listed(v) < Listed(w)

(* _baseline_first: is v measured before w? *)
BaselineFirst(v, w) ==
    IF IsBaseline(v) # IsBaseline(w) THEN IsBaseline(v) ELSE Listed(v) < Listed(w)

(* S in the one order that is so. *)
Orders(S) ==
    {s \in [1..Cardinality(S) -> S] :
        \A i, j \in DOMAIN s : i < j => BaselineFirst(s[i], s[j])}

NoVerdict == [kind |-> "none", winner |-> "none", baseline |-> "none"]

NoQuant ==
    [at |-> "idle", todo |-> <<>>, force |-> FALSE, source |-> "probe",
     given |-> NoChunks, rows |-> NoChunks, table |-> <<>>, baseline |-> "none",
     embedded |-> <<>>, open |-> "none", scored |-> {}, verdict |-> NoVerdict]

(* --chunks names a file and --corpus-root the cache of the output         *)
(* directory; without either probe texts are embedded.  --force-rechunk    *)
(* is never refused, but heeded with --corpus-root only.                   *)
StartQuant ==
    /\ Begin("quant")
    /\ \E S \in Selections, source \in {"chunks", "corpus", "probe"}, force \in BOOLEAN,
          given \in {chunkFile} \union Supplied :
        \E order \in Orders(S) :
            quant' = [NoQuant EXCEPT
                !.at = IF source = "probe" THEN "measure" ELSE "chunks",
                !.todo = order, !.force = force, !.source = source,
                !.given = IF source = "chunks" THEN given ELSE NoChunks]

At(place) == command = "quant" /\ quant.at = place

-------------------------------------------------------------------------------
(* The chunks *)

(* A file of --chunks is read in any case, the cache unless it is to be new. *)
TakesFile ==
    quant.source = "chunks" \/ (chunkFile.part # "missing" /\ ~ quant.force)

FileTaken == IF quant.source = "chunks" THEN quant.given ELSE chunkFile

(* The file is taken as it is, whatever golden set and corpus it is of. *)
ReuseChunks ==
    /\ At("chunks") /\ TakesFile /\ Readable(FileTaken)
    /\ quant' = [quant EXCEPT !.at = "measure", !.rows = FileTaken]
    /\ GoesOn /\ UNCHANGED <<chunkFile, torn>>

(* A file of --chunks may not even be there. *)
RefuseChunks ==
    /\ At("chunks") /\ TakesFile /\ ~ Readable(FileTaken)
    /\ quant' = NoQuant
    /\ End(IF FileTaken.part = "missing" THEN "failed" ELSE "unreadable", Chunks)
    /\ UNCHANGED <<chunkFile, torn>>

(* Once the books are chunked the file is opened, which empties it. *)
BuildChunks ==
    /\ At("chunks") /\ ~ TakesFile
    /\ quant' = [quant EXCEPT !.at = "save", !.rows = ChunkSet("whole")]
    /\ chunkFile' = ChunkSet("unreadable")
    /\ GoesOn /\ UNCHANGED torn

(* No golden book in the corpus. *)
BuildFails ==
    /\ At("chunks") /\ ~ TakesFile
    /\ quant' = NoQuant
    /\ End("failed", Chunks) /\ UNCHANGED <<chunkFile, torn>>

(* Rows reach the file in buffers that end anywhere in a line. *)
WriteSomeRows ==
    /\ At("save")
    /\ chunkFile' \in {ChunkSet(part) : part \in {"unreadable", "prefix"}}
    /\ GoesOn /\ UNCHANGED <<quant, torn>>

WriteLastRow ==
    /\ At("save")
    /\ chunkFile' = ChunkSet("whole")
    /\ quant' = [quant EXCEPT !.at = "measure"]
    /\ torn' = torn \ {Chunks}
    /\ GoesOn

-------------------------------------------------------------------------------
(* measure_variant *)

Row(v, ok, cosine) ==
    [variant |-> v, ok |-> ok, cosine |-> cosine,
     against |-> IF cosine = "none" THEN "none" ELSE quant.baseline]

LoadFails ==
    /\ At("measure") /\ quant.todo # <<>> /\ quant.open = "none"
    /\ quant' = [quant EXCEPT
            !.table = Append(@, Row(Head(quant.todo), FALSE, "none")),
            !.todo = Tail(@)]
    /\ GoesOn /\ UNCHANGED <<chunkFile, torn>>

Load ==
    /\ At("measure") /\ quant.todo # <<>> /\ quant.open = "none"
    /\ quant' = [quant EXCEPT !.open = Head(quant.todo)]
    /\ GoesOn /\ UNCHANGED <<chunkFile, torn>>

(* The mean cosine is known once a baseline has been measured. *)
Embed ==
    /\ At("measure") /\ quant.open # "none"
    /\ \E cosine \in IF quant.baseline = "none" THEN {"none"} ELSE {"near", "far"} :
        quant' = [quant EXCEPT
            !.table = Append(@, Row(quant.open, TRUE, cosine)),
            !.baseline = IF @ = "none" /\ IsBaseline(quant.open) THEN quant.open ELSE @,
            !.embedded = Append(@, quant.open),
            !.todo = Tail(@), !.open = "none"]
    /\ GoesOn /\ UNCHANGED <<chunkFile, torn>>

EmbedFails ==
    /\ At("measure") /\ quant.open # "none"
    /\ quant' = NoQuant
    /\ End("failed", Chunks) /\ UNCHANGED <<chunkFile, torn>>

(* Each variant that was embedded is loaded again for the golden queries. *)
StartScoring ==
    /\ At("measure") /\ quant.todo = <<>>
    /\ quant' = [quant EXCEPT
            !.at = "score",
            !.todo = IF quant.source = "probe" THEN <<>> ELSE quant.embedded]
    /\ GoesOn /\ UNCHANGED <<chunkFile, torn>>

(* A variant that fails here is left out of the retrieval table. *)
Score ==
    /\ At("score") /\ quant.todo # <<>>
    /\ \E scored \in {{}, {Head(quant.todo)}} :
        quant' = [quant EXCEPT !.scored = @ \union scored, !.todo = Tail(@)]
    /\ GoesOn /\ UNCHANGED <<chunkFile, torn>>

-------------------------------------------------------------------------------
(* build_recommendation *)

Verdict(kind, winner, baseline) ==
    [kind |-> kind, winner |-> winner, baseline |-> baseline]

(* The verdicts a table allows; the measured sizes choose among winners. *)
Verdicts(table) ==
    LET ok == {i \in DOMAIN table : table[i].ok}
        base == {i \in ok : IsBaseline(table[i].variant)}
        First(I) == table[CHOOSE i \in I : \A j \in I : i <= j].variant
        others == {i \in ok : table[i].variant # First(base)}
        near == {i \in others : table[i].cosine = "near"}
    IN  IF ok = {} THEN {NoVerdict}
        ELSE IF base = {}
        THEN {Verdict("no baseline",
                      IF \E i \in ok : table[i].variant = "gguf" THEN "gguf"
                      ELSE First(ok), "none")}
        ELSE IF near # {}
        THEN {Verdict("recommended", table[i].variant, First(base)) : i \in near}
        ELSE {Verdict(IF others = {} THEN "baseline only"
                      ELSE IF \A i \in others : table[i].cosine = "none"
                      THEN "unverified" ELSE "none near",
                      "none", First(base))}

Recommend ==
    /\ At("score") /\ quant.todo = <<>>
    /\ \E v \in Verdicts(quant.table) :
        quant' = [quant EXCEPT !.at = "done", !.verdict = v]
    /\ End("ok", Chunks) /\ UNCHANGED <<chunkFile, torn>>

QuantDies ==
    /\ command = "quant"
    /\ torn' = IF At("save") THEN torn \union {Chunks} ELSE torn
    /\ quant' = NoQuant
    /\ End("died", Chunks) /\ UNCHANGED chunkFile

QuantStep ==
    \/ StartQuant \/ ReuseChunks \/ RefuseChunks \/ BuildChunks \/ BuildFails
    \/ WriteSomeRows \/ WriteLastRow \/ LoadFails \/ Load \/ Embed \/ EmbedFails
    \/ StartScoring \/ Score \/ Recommend \/ QuantDies

=============================================================================
