------------------------- MODULE ForegroundSession -------------------------
(***************************************************************************)
(* The foreground session of llama-server: images, then the robot state,   *)
(* then an instruction that runs one inference.                            *)
(*                                                                         *)
(* Handlers run on HTTP threads and hold foreground.mutex for the whole    *)
(* request, so only an inference, which calls the model several times, has *)
(* more than one step here: infer # NoInfer means that its thread holds    *)
(* the mutex.  The main thread takes no part in the mutex: it unloads the  *)
(* model when it is idle and wipes the session when it reloads it.         *)
(* (tools/server/server-context.cpp)                                       *)
(*                                                                         *)
(* Text is a sequence of pieces: Marker, an instruction, or, for PI0.5, an *)
(* instruction with the state written into it; NoText is the chat template *)
(* around an empty message.  Every piece and every image takes one         *)
(* position of sequence 0, which kv holds.                                 *)
(***************************************************************************)
EXTENDS Integers, Sequences, FiniteSets, SequencesExt

CONSTANTS
    Policies,      \* the policies to choose from: "text", "pi0", "pi05", "gr00t"
    Images, States, Embodiments, Instructions,
    Marked,        \* instructions that contain the media marker
    Marker, Token, \* a media marker; a generated token
    NoText, NoState, NoEmbodiment, NoResult, NoInfer,
    ModelState,    \* the state row a PI0 inference returns
    PiImages,      \* embedding buffers of a PI batch (3 in the code)
    MaxImages, MaxHistory, MaxTokens  \* bounds of the model

\* What an instruction adds to the text: itself or, for PI0.5, with the state.
Prompts == Instructions \cup [text : Instructions \cup {NoText}, state : States \cup {NoState, ModelState}]

ASSUME ForegroundAssumption ==
    /\ Policies \subseteq {"text", "pi0", "pi05", "gr00t"}
    /\ Marked \subseteq Instructions /\ NoText \notin Prompts
    /\ Marker \notin Prompts \cup {NoText}
    /\ Images \cap ({Marker, Token, NoText} \cup Prompts) = {}
    /\ PiImages \in Nat /\ MaxImages \in Nat /\ MaxHistory \in Nat /\ MaxTokens \in Nat

VARIABLES
    \* foreground_session
    policy_kind, bitmaps, content, chat_history, n_past, state_flag,
    latest_state, embodiment_id,
    result,        \* latest_gr00t_action or latest_pi0_result
    \* llama_context
    kv,            \* what sequence 0 holds, by position
    cross,         \* the state and embodiment set in the context, and whether
                   \* a PI prefix has been encoded since it was created
    model,         \* "loaded", "sleeping", or "aborted" (GGML_ABORT)
    infer,         \* the inference in progress
    answer,        \* the response the last step has sent
    \* history variables
    put,           \* the state and embodiment of the last PUT that succeeded
    uploaded,      \* the images whose upload succeeded and no infer has used
    clean          \* no infer has failed since the last reset

inputs  == <<policy_kind, bitmaps, content, state_flag, latest_state, embodiment_id>>
context == <<kv, cross>>
ghosts  == <<put, uploaded, clean>>
vars    == <<inputs, chat_history, n_past, result, context, model, infer, answer, ghosts>>

None   == [kind |-> "none"]
Error  == [kind |-> "error"]
Answered(action) == [kind |-> "ok", action |-> action, uploaded |-> uploaded]
ok(a)  == a.kind = "ok"

Pieces   == {Marker, NoText} \cup Prompts
Chunks   == Seq(Images \cup Prompts \cup {Token, NoText})
Inferences == [kind : {"gr00t", "pi", "text", "generate"}, chunks : Chunks]
Messages == [role : {"user", "assistant"}, content : Seq(Pieces \cup {Token})]

ASSUME InferAssumption == NoInfer \notin Inferences

TypeOK ==
    /\ policy_kind \in Policies
    /\ bitmaps \in Seq(Images) /\ content \in Seq(Pieces)
    /\ chat_history \in Seq(Messages) /\ n_past \in Nat
    /\ state_flag \in BOOLEAN
    /\ latest_state \in States \cup {NoState, ModelState}
    /\ embodiment_id \in Embodiments \cup {NoEmbodiment}
    /\ kv \in Chunks
    /\ cross \in [state : States \cup {NoState, ModelState},
                  embodiment : Embodiments \cup {NoEmbodiment}, encoded : BOOLEAN]
    /\ model \in {"loaded", "sleeping", "aborted"}
    /\ infer # NoInfer => infer \in Inferences

NewContext == [state |-> NoState, embodiment |-> NoEmbodiment, encoded |-> FALSE]

Init ==
    /\ policy_kind \in Policies
    /\ bitmaps = <<>> /\ content = <<>> /\ chat_history = <<>> /\ n_past = 0
    /\ state_flag = FALSE /\ latest_state = NoState /\ embodiment_id = NoEmbodiment
    /\ result = NoResult
    /\ kv = <<>> /\ cross = NewContext
    /\ model = "loaded" /\ infer = NoInfer /\ answer = None
    /\ put = [state |-> NoState, embodiment |-> NoEmbodiment]
    /\ uploaded = <<>> /\ clean = TRUE

\* A handler starts: create_response has seen the server awake, and the
\* thread takes foreground.mutex.
Locked == model = "loaded" /\ infer = NoInfer

-----------------------------------------------------------------------------
(* Loading the inputs.  An upload that fails changes nothing.              *)

PostImage(i) ==
    /\ Locked /\ Len(bitmaps) < MaxImages
    /\ bitmaps' = Append(bitmaps, i)
    /\ content' = Append(content, Marker)
    /\ uploaded' = Append(uploaded, i)
    /\ answer' = None
    /\ UNCHANGED <<policy_kind, chat_history, n_past, state_flag, latest_state,
                   embodiment_id, result, context, model, infer, put, clean>>

\* Faulty variant: the state is stored before the embodiment is validated.
PutState_Early(s, e) ==
    /\ Locked /\ policy_kind # "text"
    /\ latest_state' = s /\ cross' = [cross EXCEPT !.state = s]
    /\ IF policy_kind = "gr00t" /\ e = NoEmbodiment
       THEN UNCHANGED <<embodiment_id, state_flag, put>>
       ELSE /\ embodiment_id' = IF policy_kind = "gr00t" THEN e ELSE embodiment_id
            /\ state_flag' = TRUE
            /\ put' = [state |-> s, embodiment |-> e]
    /\ answer' = None
    /\ UNCHANGED <<policy_kind, bitmaps, content, chat_history, n_past, result,
                   kv, model, infer, uploaded, clean>>

\* PUT state.  GR00T needs an embodiment the checkpoint has: NoEmbodiment
\* stands for a rejected one, which changes nothing.  States are put to action
\* models only (the handler does not check that, see the README).
PutState(s, e) ==
    /\ Locked /\ policy_kind # "text"
    /\ (policy_kind = "gr00t") = (e # NoEmbodiment)
    /\ cross' = [cross EXCEPT !.state = s, !.embodiment = e]
    /\ latest_state' = s /\ embodiment_id' = e /\ state_flag' = TRUE
    /\ put' = [state |-> s, embodiment |-> e]
    /\ answer' = None
    /\ UNCHANGED <<policy_kind, bitmaps, content, chat_history, n_past, result,
                   kv, model, infer, uploaded, clean>>

\* Faulty variant: the pending text survives a reset.
Reset_KeepsText ==
    /\ Locked
    /\ bitmaps' = <<>> /\ chat_history' = <<>> /\ n_past' = 0
    /\ state_flag' = FALSE /\ latest_state' = NoState /\ embodiment_id' = NoEmbodiment
    /\ result' = NoResult /\ kv' = <<>> /\ answer' = None
    /\ put' = [state |-> NoState, embodiment |-> NoEmbodiment]
    /\ uploaded' = <<>> /\ clean' = TRUE
    /\ UNCHANGED <<policy_kind, content, cross, model, infer>>

\* foreground_reset.  The state set in the context stays.
Reset ==
    /\ Locked
    /\ bitmaps' = <<>> /\ content' = <<>> /\ chat_history' = <<>> /\ n_past' = 0
    /\ state_flag' = FALSE /\ latest_state' = NoState /\ embodiment_id' = NoEmbodiment
    /\ result' = NoResult /\ kv' = <<>> /\ answer' = None
    /\ put' = [state |-> NoState, embodiment |-> NoEmbodiment]
    /\ uploaded' = <<>> /\ clean' = TRUE
    /\ UNCHANGED <<policy_kind, cross, model, infer>>

-----------------------------------------------------------------------------
(* GR00T: every inference starts from an empty context.                    *)

Gr00tReady(t) ==
    /\ Locked /\ policy_kind = "gr00t" /\ t # NoText
    /\ state_flag /\ latest_state # NoState /\ embodiment_id # NoEmbodiment
    /\ bitmaps # <<>>

\* Faulty variants: the context of the previous tick is kept; the images are
\* taken as soon as they are tokenized.
InferGr00t_KeepsContext(t) ==
    /\ Gr00tReady(t) /\ t \notin Marked
    /\ cross' = [cross EXCEPT !.state = latest_state, !.embodiment = embodiment_id]
    /\ infer' = [kind |-> "gr00t", chunks |-> kv \o Append(bitmaps, t)]
    /\ result' = NoResult /\ n_past' = 0 /\ answer' = None
    /\ UNCHANGED <<inputs, chat_history, kv, model, ghosts>>

\* foreground_eval_gr00t up to the model evaluation: preprocessing and
\* tokenizing may fail, and do when the instruction contains a marker.
InferGr00t(t) ==
    /\ Gr00tReady(t)
    /\ result' = NoResult
    /\ \/ answer' = Error /\ UNCHANGED <<n_past, context, infer>>
       \/ /\ t \notin Marked
          /\ cross' = [cross EXCEPT !.state = latest_state, !.embodiment = embodiment_id]
          /\ kv' = <<>> /\ n_past' = 0
          /\ infer' = [kind |-> "gr00t", chunks |-> Append(bitmaps, t)]
          /\ answer' = None
    /\ UNCHANGED <<inputs, chat_history, model, ghosts>>

\* The prefix evaluation, the action head, or the check that the action is
\* finite may fail; otherwise the action is stored and the inputs are taken.
EvalGr00t ==
    /\ model = "loaded" /\ infer # NoInfer /\ infer.kind = "gr00t"
    /\ infer' = NoInfer
    /\ \/ /\ kv' \in Prefixes(infer.chunks)
          /\ answer' = Error
          /\ UNCHANGED <<inputs, chat_history, n_past, result, uploaded>>
       \/ /\ kv' = infer.chunks /\ n_past' = Len(infer.chunks)
          /\ result' = [chunks |-> infer.chunks, state |-> cross.state,
                        embodiment |-> cross.embodiment]
          /\ answer' = Answered(result')
          /\ bitmaps' = <<>> /\ content' = <<>> /\ chat_history' = <<>>
          /\ uploaded' = <<>>
          /\ UNCHANGED <<policy_kind, state_flag, latest_state, embodiment_id>>
    /\ UNCHANGED <<cross, model, put, clean>>

-----------------------------------------------------------------------------
(* PI and text: one message at a time, on top of the conversation so far.  *)

HasMarker(p) == p \in {Marker} \cup Marked \cup [text : Marked, state : States \cup {NoState, ModelState}]
Markers(s)   == Cardinality({k \in DOMAIN s : HasMarker(s[k])})

\* mtmd_tokenize: the k-th marker is replaced by the k-th bitmap.
Tokenized(s) == [k \in DOMAIN s |-> IF s[k] = Marker THEN bitmaps[Markers(SubSeq(s, 1, k))]
                                                     ELSE s[k]]

\* The text an instruction adds; PI0.5 writes latest_state into it.
Prompt(t) ==
    IF state_flag /\ policy_kind = "pi05" THEN <<[text |-> t, state |-> latest_state]>>
    ELSE IF t = NoText THEN <<>> ELSE <<t>>

\* The chat template turns even an empty message into text.
Formatted(text) == IF text = <<>> /\ ~state_flag THEN <<NoText>> ELSE text

\* post_foreground_infer and foreground_eval_message up to the evaluation.
\* The message joins the history before it is tokenized; a failure leaves it
\* there, and the instruction in the pending text.
InferMessage(t) ==
    LET text == content \o Prompt(t) IN
    /\ Locked /\ policy_kind # "gr00t" /\ Len(chat_history) < MaxHistory
    /\ chat_history' = Append(chat_history, [role |-> "user", content |-> Formatted(text)])
    /\ \/ /\ content' = text /\ answer' = Error /\ clean' = FALSE
          /\ UNCHANGED <<bitmaps, latest_state, result, infer>>
       \/ /\ Markers(text) = Len(bitmaps)
          /\ infer' = [kind |-> IF state_flag THEN "pi" ELSE "text", chunks |-> Tokenized(Formatted(text))]
          /\ bitmaps' = <<>> /\ content' = <<>>
          /\ IF state_flag THEN UNCHANGED <<latest_state, result>>
                           ELSE latest_state' = NoState /\ result' = NoResult
          /\ answer' = None /\ UNCHANGED clean
    /\ UNCHANGED <<policy_kind, n_past, state_flag, embodiment_id, context, model, put, uploaded>>

\* The batch is accepted only where the sequence ends (llama_batch_allocr).
Consecutive == kv = <<>> \/ n_past = Len(kv)

\* Where the images of s are, and which of them the one at k is.
ImagesAt(s) == {k \in DOMAIN s : s[k] \in Images}
ImageRank(s, k) == Cardinality({j \in ImagesAt(s) : j <= k})

\* mtmd_helper_eval_chunks_pi0: no chunks, too many images, an encode or a
\* decode that fails, or an action.  It starts at position 0 and stores
\* nothing in sequence 0.
EvalPi ==
    /\ model = "loaded" /\ infer # NoInfer /\ infer.kind = "pi"
    /\ infer' = NoInfer /\ uploaded' = <<>>
    /\ \/ /\ infer.chunks = <<>>
          /\ result' = NoResult /\ n_past' = 0 /\ latest_state' = NoState
          /\ answer' = Answered(NoResult) /\ UNCHANGED <<cross, model, clean>>
       \/ /\ Cardinality(ImagesAt(infer.chunks)) > PiImages
          /\ model' = "aborted" /\ answer' = None
          /\ UNCHANGED <<result, n_past, latest_state, cross, clean>>
       \/ /\ infer.chunks # <<>> /\ Cardinality(ImagesAt(infer.chunks)) <= PiImages
          /\ \E encoded \in {cross.encoded, TRUE} : cross' = [cross EXCEPT !.encoded = encoded]
          /\ result' = NoResult /\ answer' = Error /\ clean' = FALSE
          /\ UNCHANGED <<n_past, latest_state, model>>
       \/ /\ infer.chunks # <<>> /\ Cardinality(ImagesAt(infer.chunks)) <= PiImages
          /\ kv = <<>>
          /\ cross' = [cross EXCEPT !.encoded = TRUE]
          /\ result' = [chunks |-> infer.chunks, state |-> cross.state,
                        embodiment |-> NoEmbodiment]
          /\ n_past' = Len(infer.chunks)
          /\ latest_state' = IF policy_kind = "pi0" THEN ModelState ELSE NoState
          /\ answer' = Answered(result') /\ UNCHANGED <<model, clean>>
    /\ UNCHANGED <<policy_kind, bitmaps, content, state_flag, embodiment_id,
                   chat_history, kv, put>>

\* Once a PI prefix is encoded, llama_decode runs the action expert instead of
\* storing tokens.
Store(tokens) == kv' = IF cross.encoded THEN kv ELSE kv \o tokens

Failed ==
    /\ infer' = NoInfer /\ answer' = Error /\ clean' = FALSE /\ uploaded' = <<>>

\* Faulty variant: the new position is taken after the first chunk.
EvalText_OneChunk ==
    /\ model = "loaded" /\ infer # NoInfer /\ infer.kind = "text" /\ Consecutive
    /\ Store(infer.chunks)
    /\ n_past' = n_past + (IF infer.chunks = <<>> THEN 0 ELSE 1)
    /\ infer' = [kind |-> "generate", chunks |-> <<>>]
    /\ answer' = None
    /\ UNCHANGED <<inputs, chat_history, result, cross, model, ghosts>>

\* mtmd_helper_eval_chunks: chunks are decoded until one fails.
EvalText ==
    /\ model = "loaded" /\ infer # NoInfer /\ infer.kind = "text"
    /\ \/ /\ \E done \in Prefixes(infer.chunks) :
               Store(IF Consecutive THEN done ELSE <<>>)
          /\ Failed /\ UNCHANGED <<n_past, put>>
       \/ /\ Consecutive /\ Store(infer.chunks)
          /\ n_past' = n_past + Len(infer.chunks)
          /\ infer' = [kind |-> "generate", chunks |-> <<>>]
          /\ answer' = None /\ UNCHANGED ghosts
    /\ UNCHANGED <<inputs, chat_history, result, cross, model>>

\* One token of foreground_generate_response: n_past grows before the decode.
GenerateToken ==
    /\ model = "loaded" /\ infer # NoInfer /\ infer.kind = "generate"
    /\ Len(infer.chunks) < MaxTokens
    /\ n_past' = n_past + 1
    /\ \/ Failed /\ UNCHANGED <<kv, put>>
       \/ /\ Consecutive /\ Store(<<Token>>)
          /\ infer' = [infer EXCEPT !.chunks = Append(@, Token)]
          /\ answer' = None /\ UNCHANGED ghosts
    /\ UNCHANGED <<inputs, chat_history, result, cross, model>>

\* End of generation, n_predict or an antiprompt: the reply joins the history.
GenerateEnd ==
    /\ model = "loaded" /\ infer # NoInfer /\ infer.kind = "generate"
    /\ chat_history' = Append(chat_history, [role |-> "assistant", content |-> infer.chunks])
    /\ content' = <<>>
    /\ infer' = NoInfer /\ answer' = Answered(NoResult) /\ uploaded' = <<>>
    /\ UNCHANGED <<policy_kind, bitmaps, state_flag, latest_state, embodiment_id,
                   n_past, result, context, model, put, clean>>

-----------------------------------------------------------------------------
(* The main thread: idle sleep.                                            *)

\* No task is queued, so the model is destroyed; the mutex is not taken, and
\* an inference does not count as activity.
Sleep ==
    /\ model = "loaded"
    /\ model' = "sleeping" /\ answer' = None
    /\ UNCHANGED <<inputs, chat_history, n_past, result, context, infer, ghosts>>

\* The next request reloads the model, and foreground_init_after_load wipes the
\* session.  With an inference on the freed model the behaviour is undefined:
\* nothing is said about it here.
Wake ==
    /\ model = "sleeping" /\ infer = NoInfer
    /\ model' = "loaded"
    /\ bitmaps' = <<>> /\ content' = <<>> /\ chat_history' = <<>> /\ n_past' = 0
    /\ state_flag' = FALSE /\ latest_state' = NoState /\ embodiment_id' = NoEmbodiment
    /\ result' = NoResult /\ kv' = <<>> /\ cross' = NewContext
    /\ put' = [state |-> NoState, embodiment |-> NoEmbodiment]
    /\ uploaded' = <<>> /\ clean' = TRUE /\ answer' = None
    /\ UNCHANGED <<policy_kind, infer>>

Next ==
    \/ \E i \in Images : PostImage(i)
    \/ \E s \in States, e \in Embodiments \cup {NoEmbodiment} : PutState(s, e)
    \/ Reset
    \/ \E t \in Instructions \cup {NoText} : InferGr00t(t) \/ InferMessage(t)
    \/ EvalGr00t \/ EvalPi \/ EvalText \/ GenerateToken \/ GenerateEnd
    \/ Sleep \/ Wake

Spec == Init /\ [][Next]_vars

-----------------------------------------------------------------------------
(* Properties.                                                             *)

\* "The number of media markers must match the number of pending bitmaps":
\* whatever fails or is reset, the session keeps one marker per image.
MarkersMatchImages ==
    Cardinality({k \in DOMAIN content : content[k] = Marker}) = Len(bitmaps)

\* The images of s, in their order, are imgs.
ImagesAre(s, imgs) ==
    /\ Cardinality(ImagesAt(s)) = Len(imgs)
    /\ \A k \in ImagesAt(s) : s[k] = imgs[ImageRank(s, k)]

\* An action a client is sent was computed from the state and embodiment of
\* the last PUT that succeeded and from the images uploaded for it, in their
\* order: never from those of an earlier tick, of a rejected PUT, or from
\* before a reset or a reload.  (PI0.5 reads the state from its prompt.)
FreshAction ==
    ok(answer) /\ answer.action # NoResult =>
        /\ ImagesAre(answer.action.chunks, answer.uploaded)
        /\ policy_kind # "pi05" => answer.action.state = put.state
        /\ policy_kind = "gr00t" => answer.action.embodiment = put.embodiment

\* GR00T "starts each policy tick from a fresh model context and does not
\* retain conversation history".
FreshTick ==
    ok(answer) /\ policy_kind = "gr00t" =>
        /\ kv = Append(answer.uploaded, Last(kv)) /\ n_past = Len(kv)
        /\ <<bitmaps, content, chat_history>> = <<<<>>, <<>>, <<>>>>

\* "Pending images are consumed after a successful inference request": a GR00T
\* inference that fails, at whatever step, leaves them for a retry.
FailureKeepsImages ==
    [][policy_kind = "gr00t" /\ bitmaps # <<>> /\ bitmaps' = <<>>
         => ok(answer') \/ ~state_flag']_vars

\* What sequence 0 holds, as text: an image was a marker.
Recorded(s) == [k \in DOMAIN s |-> IF s[k] \in Images THEN Marker ELSE s[k]]

\* The transcript of a chat_history, as sequence 0 would hold it.
Transcript == FlattenSeq([k \in DOMAIN chat_history |-> chat_history[k].content])

\* A text session that has not failed since its reset: the context holds the
\* recorded conversation, nothing else, and n_past is where it ends.  Also
\* after a failure, an answer is given only on consecutive positions.
OneConversation ==
    policy_kind = "text" /\ infer = NoInfer =>
        /\ clean => Recorded(kv) = Transcript
        /\ clean \/ ok(answer) => n_past = Len(kv)

\* "only use these pointers ... when not in sleeping state": no inference is
\* under way while the model is unloaded.
UsedOnlyAwake == infer # NoInfer => model # "sleeping"
=============================================================================
