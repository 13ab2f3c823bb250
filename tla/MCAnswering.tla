----------------------------- MODULE MCAnswering -----------------------------
(* Instances of Answering for TLC. *)
EXTENDS Answering

Plain == [guard |-> "open", embedding |-> "local", root |-> FALSE,
          llm |-> "llamacpp", translator |-> "memory",
          given |-> {"bm25_state", "llm_gguf_path"}]

(* One Llama; hosted models behind a token, with the translator on the     *)
(* generator's model; an Ollama without a model's name, which never wires, *)
(* behind a token that is not ASCII.                                       *)
SomeConfigurations ==
    {Plain,
     [guard |-> "ascii", embedding |-> "openrouter", root |-> TRUE,
      llm |-> "openai_compatible", translator |-> "openai_compatible",
      given |-> Settings \ {"translator_api_model", "llm_gguf_path"}],
     [Plain EXCEPT !.llm = "ollama", !.guard = "foreign"]}

(* With and without a token, which may be one that cannot be compared, and *)
(* a sound body; in English and in Arabic; blank.                          *)
SomeInquiries ==
    LET Of(kind, token, valid, question) ==
            [kind |-> kind, token |-> token, valid |-> valid, question |-> question]
    IN  {Of("retrieve", "absent", TRUE, "english"), Of("retrieve", "right", TRUE, "english"),
         Of("retrieve", "foreign", TRUE, "english"),
         Of("retrieve", "right", FALSE, "english"), Of("retrieve", "absent", TRUE, "arabic"),
         Of("ask", "absent", TRUE, "english"), Of("ask", "absent", TRUE, "blank")}

Good == [chunk |-> 1, stable |-> TRUE, complete |-> TRUE, footnote |-> FALSE]
Note == [chunk |-> 2, stable |-> TRUE, complete |-> FALSE, footnote |-> TRUE]
Lost == [chunk |-> 3, stable |-> FALSE, complete |-> TRUE, footnote |-> FALSE]

SomeFindings == {<<>>, <<Good>>, <<Good, Note>>, <<Good, Lost, Note>>}

=============================================================================
