--------------------- MODULE ForegroundSession_proofs ----------------------
(***************************************************************************)
(* Theorems about the foreground session, for any images, states,          *)
(* embodiments, instructions and policies, and sessions of any length: its *)
(* types; the pending text has one marker per pending image                *)
(* (MarkersMatchImages); a GR00T tick leaves a fresh context (FreshTick),  *)
(* and one that fails keeps its images (FailureKeepsImages); an action is  *)
(* computed from what was uploaded for it (FreshAction); and the context   *)
(* of a text session holds its conversation (OneConversation).             *)
(***************************************************************************)
EXTENDS ForegroundSession, TLAPS, FiniteSetTheorems, SequenceTheorems, WellFoundedInduction

-----------------------------------------------------------------------------
(* Text and its markers.                                                   *)

Places(s) == {k \in DOMAIN s : s[k] = Marker}

\* A new marker is one place more, a prompt none.
LEMMA MarkerAdded ==
  ASSUME NEW S, NEW s \in Seq(S)
  PROVE  /\ Places(Append(s, Marker)) = Places(s) \cup {Len(s) + 1}
         /\ Cardinality(Places(Append(s, Marker))) = Cardinality(Places(s)) + 1
         /\ Cardinality(Places(s)) \in Nat
<1>1. Places(Append(s, Marker)) = Places(s) \cup {Len(s) + 1}
  BY DEF Places
<1>2. IsFiniteSet(Places(s))
  <2>1. IsFiniteSet(1..Len(s))
    BY FS_Interval
  <2>2. Places(s) \subseteq 1..Len(s)
    BY DEF Places
  <2> QED BY <2>1, <2>2, FS_Subset
<1>3. Len(s) + 1 \notin Places(s)
  BY DEF Places
<1>4. Cardinality(Places(s)) \in Nat
  BY <1>2, FS_CardinalityType
<1>5. Cardinality(Places(s) \cup {Len(s) + 1}) = Cardinality(Places(s)) + 1
  BY <1>2, <1>3, FS_AddElement
<1> QED BY <1>1, <1>4, <1>5

LEMMA PromptAddsNone ==
  ASSUME NEW s \in Seq(Pieces), NEW p \in Seq(Prompts)
  PROVE  s \o p \in Seq(Pieces) /\ Places(s \o p) = Places(s)
<1>1. p \in Seq(Pieces)
  BY DEF Pieces
<1>2. s \o p \in Seq(Pieces)
  BY <1>1
<1>3. \A k \in 1..Len(p) : p[k] # Marker
  BY ForegroundAssumption DEF ForegroundAssumption
<1>4. \A k \in DOMAIN (s \o p) : (s \o p)[k] = Marker => k \in DOMAIN s
  BY <1>1, <1>3
<1>5. \A k \in DOMAIN s : k \in DOMAIN (s \o p) /\ (s \o p)[k] = s[k]
  BY <1>1
<1> QED BY <1>2, <1>4, <1>5 DEF Places

LEMMA PromptType ==
  ASSUME NEW t \in Instructions \cup {NoText},
         latest_state \in States \cup {NoState, ModelState}
  PROVE  Prompt(t) \in Seq(Prompts)
<1>1. CASE state_flag /\ policy_kind = "pi05"
  <2>1. [text |-> t, state |-> latest_state] \in Prompts
    BY DEF Prompts
  <2> QED BY <1>1, <2>1 DEF Prompt
<1>2. CASE ~(state_flag /\ policy_kind = "pi05")
  <2>1. Prompt(t) = IF t = NoText THEN <<>> ELSE <<t>>
    BY <1>2 DEF Prompt
  <2>2. t # NoText => t \in Prompts
    BY DEF Prompts
  <2> QED BY <2>1, <2>2
<1> QED BY <1>1, <1>2

-----------------------------------------------------------------------------
(* The pending inputs: their types, and one marker per image.  An inference *)
(* by message has taken its images; nothing is uploaded until it ends.     *)

TakenFirst == infer # NoInfer /\ infer.kind # "gr00t" => bitmaps = <<>>

PendingInv ==
    /\ TakenFirst
    /\ bitmaps \in Seq(Images) /\ content \in Seq(Pieces)
    /\ latest_state \in States \cup {NoState, ModelState}
    /\ MarkersMatchImages

LEMMA NoMarkers == Cardinality(Places(<<>>)) = 0 /\ <<>> \in Seq(Pieces) /\ <<>> \in Seq(Images)
<1>1. Places(<<>>) = {}
  BY DEF Places
<1> QED BY <1>1, FS_EmptySet

LEMMA PendingInit == Init => PendingInv
  BY NoMarkers DEF Init, PendingInv, TakenFirst, MarkersMatchImages, Places

LEMMA PendingStep == PendingInv /\ [Next]_vars => PendingInv'
<1> SUFFICES ASSUME PendingInv, [Next]_vars PROVE PendingInv'
  OBVIOUS
<1> USE DEF PendingInv, TakenFirst
<1>1. ASSUME NEW i \in Images, PostImage(i) PROVE PendingInv'
  <2>1. Marker \in Pieces
    BY DEF Pieces
  <2>2. bitmaps' \in Seq(Images) /\ Len(bitmaps') = Len(bitmaps) + 1
    BY <1>1 DEF PostImage
  <2>3. content' = Append(content, Marker) /\ content' \in Seq(Pieces)
    BY <1>1, <2>1 DEF PostImage
  <2>4. Cardinality(Places(content')) = Cardinality(Places(content)) + 1
    BY <2>3, MarkerAdded
  <2> QED BY <1>1, <2>2, <2>3, <2>4 DEF PostImage, Locked, MarkersMatchImages, Places
<1>2. ASSUME NEW s \in States, NEW e \in Embodiments \cup {NoEmbodiment}, PutState(s, e)
      PROVE PendingInv'
  BY <1>2 DEF PutState, MarkersMatchImages
<1>3. ASSUME bitmaps' = <<>>, content' = <<>>,
             latest_state' \in States \cup {NoState, ModelState}
      PROVE PendingInv'
  BY <1>3, NoMarkers DEF MarkersMatchImages, Places
<1>4. CASE Reset \/ Wake
  BY <1>3, <1>4 DEF Reset, Wake
<1>5. ASSUME NEW t \in Instructions \cup {NoText}, InferGr00t(t) PROVE PendingInv'
  BY <1>5 DEF InferGr00t, Gr00tReady, Locked, inputs, context, MarkersMatchImages
<1>6. ASSUME NEW t \in Instructions \cup {NoText}, InferMessage(t) PROVE PendingInv'
  <2>1. Prompt(t) \in Seq(Prompts)
    BY PromptType
  <2>2. /\ content \o Prompt(t) \in Seq(Pieces)
        /\ Places(content \o Prompt(t)) = Places(content)
    BY <2>1, PromptAddsNone
  <2>3. CASE content' = content \o Prompt(t) /\ UNCHANGED <<bitmaps, latest_state, infer>>
    BY <1>6, <2>2, <2>3 DEF InferMessage, Locked, MarkersMatchImages, Places
  <2>4. CASE bitmaps' = <<>> /\ content' = <<>>
    <3>1. latest_state' \in States \cup {NoState, ModelState}
      BY <1>6 DEF InferMessage
    <3> QED BY <1>3, <2>4, <3>1
  <2> QED BY <1>6, <2>3, <2>4 DEF InferMessage
<1>7. CASE EvalGr00t
  BY <1>3, <1>7 DEF EvalGr00t, inputs, MarkersMatchImages
<1>8. CASE EvalPi
  BY <1>8 DEF EvalPi, MarkersMatchImages
<1>9. CASE GenerateEnd
  <2>1. bitmaps = <<>> /\ bitmaps' = <<>> /\ content' = <<>>
    BY <1>9 DEF GenerateEnd
  <2> QED BY <1>3, <1>9, <2>1 DEF GenerateEnd
<1>10. CASE EvalText \/ GenerateToken \/ Sleep \/ UNCHANGED vars
  BY <1>10 DEF EvalText, GenerateToken, Sleep, vars, inputs, MarkersMatchImages
<1> QED BY <1>1, <1>2, <1>4, <1>5, <1>6, <1>7, <1>8, <1>9, <1>10 DEF Next

\* The pending text keeps one marker per pending image, whatever is uploaded,
\* fails, is retried, reset or wiped by a reload: for PI and text messages
\* mtmd_tokenize never refuses the pending inputs themselves, only a marker
\* in an instruction.
THEOREM MarkersStayMatched == Spec => []MarkersMatchImages
<1>1. PendingInv => MarkersMatchImages
  BY DEF PendingInv
<1> QED BY PendingInit, PendingStep, <1>1, PTL DEF Spec

-----------------------------------------------------------------------------
(* Types.                                                                  *)

\* mtmd_tokenize never reads past the bitmaps: each marker of a text with as
\* many markers as there are bitmaps has a bitmap of its own.
LEMMA TokenizedType ==
  ASSUME NEW s \in Seq(Pieces), bitmaps \in Seq(Images), Markers(s) = Len(bitmaps)
  PROVE  Tokenized(s) \in Chunks
<1> DEFINE Marking(k) == {j \in DOMAIN SubSeq(s, 1, k) : HasMarker(SubSeq(s, 1, k)[j])}
           All        == {j \in DOMAIN s : HasMarker(s[j])}
<1>1. IsFiniteSet(All) /\ Cardinality(All) = Len(bitmaps)
  <2>1. IsFiniteSet(1..Len(s))
    BY FS_Interval
  <2>2. All \subseteq 1..Len(s)
    OBVIOUS
  <2>3. IsFiniteSet(All)
    BY <2>1, <2>2, FS_Subset
  <2> QED BY <2>3 DEF Markers
<1>2. ASSUME NEW k \in DOMAIN s, s[k] = Marker
      PROVE  bitmaps[Markers(SubSeq(s, 1, k))] \in Images
  <2>0. k \in 1..Len(s)
    OBVIOUS
  <2>1. /\ SubSeq(s, 1, k) \in Seq(Pieces) /\ Len(SubSeq(s, 1, k)) = k
        /\ \A j \in 1..k : SubSeq(s, 1, k)[j] = s[j]
    BY <2>0
  <2>2. Marking(k) \subseteq All /\ k \in Marking(k)
    <3>1. HasMarker(s[k])
      BY <1>2 DEF HasMarker
    <3> QED BY <2>0, <2>1, <3>1
  <2>3. IsFiniteSet(Marking(k)) /\ Cardinality(Marking(k)) <= Cardinality(All)
    BY <1>1, <2>2, FS_Subset
  <2>4. Cardinality(Marking(k)) \in Nat /\ Cardinality(Marking(k)) # 0
    BY <2>2, <2>3, FS_CardinalityType, FS_EmptySet
  <2>5. Markers(SubSeq(s, 1, k)) = Cardinality(Marking(k))
    BY DEF Markers
  <2> HIDE DEF Marking, All
  <2>6. Markers(SubSeq(s, 1, k)) \in 1..Len(bitmaps)
    BY <1>1, <2>3, <2>4, <2>5
  <2> QED BY <2>6
<1>3. ASSUME NEW k \in DOMAIN s, s[k] # Marker
      PROVE  s[k] \in Images \cup Prompts \cup {Token, NoText}
  BY <1>3 DEF Pieces
<1> QED BY <1>2, <1>3 DEF Tokenized, Chunks

LEMMA FormattedType ==
  ASSUME NEW s \in Seq(Pieces), bitmaps \in Seq(Images), Markers(s) = Len(bitmaps)
  PROVE  Tokenized(Formatted(s)) \in Chunks
<1>1. CASE Formatted(s) = s
  BY <1>1, TokenizedType
<1>2. CASE Formatted(s) = <<NoText>>
  <2>1. Tokenized(<<NoText>>) = <<NoText>>
    <3>1. Marker # NoText
      BY ForegroundAssumption DEF ForegroundAssumption
    <3> QED BY <3>1 DEF Tokenized
  <2>2. <<NoText>> \in Seq(Images \cup Prompts \cup {Token, NoText})
    OBVIOUS
  <2> QED BY <1>2, <2>1, <2>2 DEF Chunks
<1> QED BY <1>1, <1>2 DEF Formatted

LEMMA FormattedText ==
  ASSUME NEW s \in Seq(Pieces)
  PROVE  Formatted(s) \in Seq(Pieces \cup {Token})
<1>1. s \in Seq(Pieces \cup {Token})
  OBVIOUS
<1>2. <<NoText>> \in Seq(Pieces \cup {Token})
  BY DEF Pieces
<1> QED BY <1>1, <1>2 DEF Formatted

\* The tokens of a reply are all generated.
TypeInv ==
    /\ TypeOK
    /\ infer # NoInfer /\ infer.kind = "generate" => infer.chunks \in Seq({Token})

LEMMA TypeInit == Init => TypeInv
<1> SUFFICES ASSUME Init PROVE TypeInv
  OBVIOUS
<1>1. /\ bitmaps \in Seq(Images) /\ content \in Seq(Pieces)
      /\ chat_history \in Seq(Messages) /\ kv \in Chunks
  BY DEF Init, Chunks
<1>2. /\ policy_kind \in Policies /\ n_past \in Nat /\ state_flag \in BOOLEAN
      /\ latest_state \in States \cup {NoState, ModelState}
      /\ embodiment_id \in Embodiments \cup {NoEmbodiment}
      /\ model \in {"loaded", "sleeping", "aborted"} /\ infer = NoInfer
  BY DEF Init
<1>3. cross \in [state : States \cup {NoState, ModelState},
                embodiment : Embodiments \cup {NoEmbodiment}, encoded : BOOLEAN]
  BY DEF Init, NewContext
<1> QED BY <1>1, <1>2, <1>3 DEF TypeInv, TypeOK

\* What Store leaves in sequence 0.
LEMMA StoreType ==
  ASSUME kv \in Chunks, NEW tokens \in Chunks, Store(tokens)
  PROVE  kv' \in Chunks
  BY DEF Store, Chunks

LEMMA PrefixType ==
  ASSUME NEW c \in Chunks, NEW done \in Prefixes(c)
  PROVE  done \in Chunks
<1>1. PICK l \in 0..Len(c) : done = SubSeq(c, 1, l)
  BY DEF Prefixes
<1> QED BY <1>1 DEF Chunks

LEMMA TypeStep == PendingInv /\ TypeInv /\ [Next]_vars => TypeInv'
<1> SUFFICES ASSUME PendingInv, PendingInv', TypeInv, [Next]_vars PROVE TypeInv'
  BY PendingStep
<1> USE DEF TypeInv, TypeOK, Inferences
<1>0. PendingInv' => bitmaps' \in Seq(Images) /\ content' \in Seq(Pieces)
                     /\ latest_state' \in States \cup {NoState, ModelState}
  BY DEF PendingInv
<1>e. <<>> \in Chunks /\ <<>> \in Seq(Messages) /\ <<>> \in Seq({Token})
  BY DEF Chunks
<1>1. ASSUME NEW i \in Images, PostImage(i) PROVE TypeInv'
  BY <1>0, <1>1 DEF PostImage, context, Locked
<1>2. ASSUME NEW s \in States, NEW e \in Embodiments \cup {NoEmbodiment}, PutState(s, e)
      PROVE TypeInv'
  BY <1>0, <1>2 DEF PutState, Locked
<1>3. CASE Reset
  BY <1>0, <1>e, <1>3 DEF Reset, Locked
<1>4. CASE Wake
  BY <1>0, <1>e, <1>4 DEF Wake, NewContext
<1>5. ASSUME NEW t \in Instructions \cup {NoText}, InferGr00t(t) PROVE TypeInv'
  <2>1. infer = NoInfer /\ t \in Instructions
    BY <1>5 DEF InferGr00t, Gr00tReady, Locked
  <2>2. CASE UNCHANGED <<n_past, context, infer>>
    BY <1>0, <1>5, <2>1, <2>2 DEF InferGr00t, inputs, context
  <2>3. CASE /\ kv' = <<>> /\ n_past' = 0
             /\ cross' = [cross EXCEPT !.state = latest_state, !.embodiment = embodiment_id]
             /\ infer' = [kind |-> "gr00t", chunks |-> Append(bitmaps, t)]
    <3>1. Append(bitmaps, t) \in Chunks
      BY <2>1 DEF Chunks, Prompts
    <3> QED BY <1>0, <1>e, <1>5, <2>3, <3>1 DEF InferGr00t, inputs
  <2> QED BY <1>5, <2>2, <2>3 DEF InferGr00t
<1>6. ASSUME NEW t \in Instructions \cup {NoText}, InferMessage(t) PROVE TypeInv'
  <2> DEFINE text == content \o Prompt(t)
  <2>1. text \in Seq(Pieces)
    BY PromptType, PromptAddsNone
  <2>2. chat_history' \in Seq(Messages)
    <3>1. Formatted(text) \in Seq(Pieces \cup {Token})
      BY <2>1, FormattedText
    <3>2. [role |-> "user", content |-> Formatted(text)] \in Messages
      BY <3>1 DEF Messages
    <3> QED BY <1>6, <3>2 DEF InferMessage
  <2>3. CASE UNCHANGED infer
    BY <1>0, <1>6, <2>2, <2>3 DEF InferMessage, context
  <2>4. CASE /\ Markers(text) = Len(bitmaps)
             /\ infer' = [kind |-> IF state_flag THEN "pi" ELSE "text",
                          chunks |-> Tokenized(Formatted(text))]
    <3>1. Tokenized(Formatted(text)) \in Chunks
      BY <2>1, <2>4, FormattedType
    <3> HIDE DEF text
    <3> QED BY <1>0, <1>6, <2>2, <2>4, <3>1 DEF InferMessage, context
  <2> QED BY <1>6, <2>3, <2>4 DEF InferMessage
<1>7. CASE EvalGr00t
  <2>1. infer.chunks \in Chunks /\ infer' = NoInfer
    BY <1>7 DEF EvalGr00t
  <2>2. kv' \in Chunks
    BY <1>7, <2>1, PrefixType DEF EvalGr00t
  <2>3. chat_history' = <<>> \/ chat_history' = chat_history
    BY <1>7 DEF EvalGr00t
  <2>4. n_past' = n_past \/ n_past' = Len(infer.chunks)
    BY <1>7 DEF EvalGr00t
  <2>5. chat_history' \in Seq(Messages) /\ n_past' \in Nat
    <3>1. Len(infer.chunks) \in Nat
      BY <2>1 DEF Chunks
    <3> QED BY <1>e, <2>3, <2>4, <3>1
  <2> QED BY <1>0, <1>7, <2>1, <2>2, <2>5 DEF EvalGr00t, inputs
<1>8. CASE EvalPi
  <2>1. infer.chunks \in Chunks /\ infer' = NoInfer
    BY <1>8 DEF EvalPi
  <2>2. n_past' \in Nat /\ model' \in {"loaded", "aborted"}
    BY <1>8, <2>1 DEF EvalPi, Chunks
  <2>3. cross' \in [state : States \cup {NoState, ModelState},
                    embodiment : Embodiments \cup {NoEmbodiment}, encoded : BOOLEAN]
    BY <1>8 DEF EvalPi
  <2> QED BY <1>0, <1>8, <2>1, <2>2, <2>3 DEF EvalPi
<1>9. CASE EvalText
  <2>1. infer.chunks \in Chunks
    BY <1>9 DEF EvalText
  <2>2. kv' \in Chunks
    BY <1>9, <1>e, <2>1, PrefixType, StoreType DEF EvalText
  <2>3. n_past' \in Nat
    BY <1>9, <2>1 DEF EvalText, Chunks
  <2>4. infer' = NoInfer \/ infer' = [kind |-> "generate", chunks |-> <<>>]
    BY <1>9 DEF EvalText, Failed
  <2>5. infer' # NoInfer =>
          /\ infer' \in [kind : {"gr00t", "pi", "text", "generate"}, chunks : Chunks]
          /\ infer'.chunks \in Seq({Token})
    <3> DEFINE started == [kind |-> "generate", chunks |-> <<>>]
    <3>1. started.chunks \in Seq({Token})
      BY <1>e
    <3>2. started \in [kind : {"gr00t", "pi", "text", "generate"}, chunks : Chunks]
      BY <1>e
    <3> HIDE DEF started
    <3>3. infer' = NoInfer \/ infer' = started
      BY <2>4 DEF started
    <3> QED BY <3>1, <3>2, <3>3
  <2>6. UNCHANGED <<policy_kind, embodiment_id, state_flag, chat_history, cross, model>>
    BY <1>9 DEF EvalText, inputs
  <2> QED BY <1>0, <2>2, <2>3, <2>5, <2>6
<1>10. CASE GenerateToken
  <2>1. <<Token>> \in Chunks
    BY DEF Chunks
  <2>2. kv' \in Chunks
    BY <1>10, <2>1, StoreType DEF GenerateToken
  <2>3. \/ infer' = NoInfer
        \/ infer' = [infer EXCEPT !.chunks = Append(@, Token)]
    BY <1>10 DEF GenerateToken, Failed
  <2>4. infer' # NoInfer => /\ infer'.kind = "generate" /\ infer'.chunks \in Seq({Token})
                            /\ infer' \in [kind : {"gr00t", "pi", "text", "generate"}, chunks : Chunks]
    <3>1. infer \in [kind : {"gr00t", "pi", "text", "generate"}, chunks : Chunks]
          /\ infer.kind = "generate" /\ infer.chunks \in Seq({Token})
      BY <1>10 DEF GenerateToken
    <3>2. Append(infer.chunks, Token) \in Seq({Token}) /\ Append(infer.chunks, Token) \in Chunks
      BY <3>1 DEF Chunks
    <3>3. CASE infer' = [infer EXCEPT !.chunks = Append(infer.chunks, Token)]
      BY <3>1, <3>2, <3>3
    <3> QED BY <2>3, <3>3
  <2> QED BY <1>0, <1>10, <2>2, <2>4 DEF GenerateToken, inputs
<1>11. CASE GenerateEnd
  <2>1. [role |-> "assistant", content |-> infer.chunks] \in Messages
    <3>1. infer.chunks \in Seq(Pieces \cup {Token})
      BY <1>11 DEF GenerateEnd
    <3> QED BY <3>1 DEF Messages
  <2> QED BY <1>0, <1>11, <2>1 DEF GenerateEnd, context
<1>12. CASE Sleep \/ UNCHANGED vars
  BY <1>12 DEF Sleep, vars, inputs, context
<1> QED BY <1>1, <1>2, <1>3, <1>4, <1>5, <1>6, <1>7, <1>8, <1>9, <1>10, <1>11, <1>12 DEF Next

\* The types of the session: among them that tokenizing never reads past the
\* pending bitmaps, and that a reply consists of generated tokens.
THEOREM SessionTypes == Spec => []TypeOK
<1>1. TypeInv => TypeOK
  BY DEF TypeInv
<1> QED BY PendingInit, PendingStep, TypeInit, TypeStep, <1>1, PTL DEF Spec

-----------------------------------------------------------------------------
(* A GR00T tick.                                                           *)

\* While it runs, an inference has the pending images, an instruction, and the
\* state and embodiment of the last PUT.
TickOf(t) == infer.chunks = Append(bitmaps, t)

FromPut ==
    infer.kind = "gr00t" /\ cross.state = put.state /\ cross.embodiment = put.embodiment

Gr00tInputs ==
    /\ uploaded = bitmaps /\ chat_history = <<>>
    /\ latest_state = put.state /\ embodiment_id = put.embodiment

\* What an action is computed from, whichever images it has.
FreshRobotState ==
    ok(answer) => /\ answer.action.chunks = kv
                  /\ answer.action.state = put.state
                  /\ answer.action.embodiment = put.embodiment

Gr00tInv ==
    policy_kind = "gr00t" =>
        /\ Gr00tInputs
        /\ infer # NoInfer => FromPut /\ \E t \in Instructions : TickOf(t)
        /\ FreshTick /\ FreshRobotState

LEMMA Gr00tInit == Init => Gr00tInv
  BY DEF Init, Gr00tInv, Gr00tInputs, FreshTick, FreshRobotState, ok, None

\* A step that sends no action, and with no inference in progress leaves the
\* inputs as they were put, keeps the invariant.
LEMMA Gr00tQuiet ==
  ASSUME ~ok(answer)', policy_kind' = "gr00t" => Gr00tInputs',
         infer' = NoInfer
  PROVE  Gr00tInv'
  BY DEF Gr00tInv, FreshTick, FreshRobotState

LEMMA Gr00tStep == PendingInv /\ Gr00tInv /\ [Next]_vars => Gr00tInv'
<1> SUFFICES ASSUME PendingInv, Gr00tInv, [Next]_vars, policy_kind' = "gr00t" PROVE Gr00tInv'
  BY DEF Gr00tInv
<1>0. policy_kind = "gr00t"
  BY DEF Next, vars, inputs, PostImage, PutState, Reset, InferGr00t, InferMessage,
         EvalGr00t, EvalPi, EvalText, GenerateToken, GenerateEnd, Sleep, Wake
<1>1. /\ Gr00tInputs
      /\ infer # NoInfer => FromPut /\ \E t \in Instructions : TickOf(t)
  BY <1>0 DEF Gr00tInv
<1>2. ASSUME NEW i \in Images, PostImage(i) PROVE Gr00tInv'
  BY <1>1, <1>2, Gr00tQuiet DEF PostImage, Locked, Gr00tInputs, ok, None
<1>3. ASSUME NEW s \in States, NEW e \in Embodiments \cup {NoEmbodiment}, PutState(s, e)
      PROVE Gr00tInv'
  BY <1>1, <1>3, Gr00tQuiet DEF PutState, Locked, Gr00tInputs, ok, None
<1>4. CASE Reset
  BY <1>1, <1>4, Gr00tQuiet DEF Reset, Locked, Gr00tInputs, ok, None
<1>5. CASE Wake
  BY <1>1, <1>5, Gr00tQuiet DEF Wake, Gr00tInputs, ok, None
<1>6. ASSUME NEW t \in Instructions \cup {NoText}, InferGr00t(t) PROVE Gr00tInv'
  <2>1. infer = NoInfer /\ t \in Instructions
    BY <1>6 DEF InferGr00t, Gr00tReady, Locked
  <2>2. Gr00tInputs'
    BY <1>1, <1>6 DEF InferGr00t, Gr00tInputs, inputs, ghosts
  <2>3. CASE answer' = Error /\ UNCHANGED infer
    BY <2>1, <2>2, <2>3, Gr00tQuiet DEF ok, Error
  <2>4. CASE answer' = None /\ cross' = [cross EXCEPT !.state = latest_state, !.embodiment = embodiment_id]
             /\ infer' = [kind |-> "gr00t", chunks |-> Append(bitmaps, t)]
    <3>1. TickOf(t)'
      BY <1>6, <2>4 DEF TickOf, InferGr00t, inputs
    <3>2. UNCHANGED put
      BY <1>6 DEF InferGr00t, ghosts
    <3>3. FromPut'
      BY <1>1, <2>4, <3>2 DEF FromPut, Gr00tInputs
    <3>4. ~ok(answer)'
      BY <2>4 DEF ok, None
    <3> QED BY <2>1, <2>2, <3>1, <3>3, <3>4 DEF Gr00tInv, FreshTick, FreshRobotState
  <2> QED BY <1>6, <2>3, <2>4 DEF InferGr00t, context
<1>7. CASE EvalGr00t
  <2>1. infer # NoInfer /\ FromPut /\ infer' = NoInfer
    BY <1>1, <1>7 DEF EvalGr00t
  <2>2. PICK t \in Instructions : TickOf(t)
    BY <1>1, <2>1
  <2>3. CASE answer' = Error /\ UNCHANGED <<inputs, chat_history, uploaded>>
    BY <1>1, <1>7, <2>1, <2>3, Gr00tQuiet DEF EvalGr00t, Gr00tInputs, inputs, ok, Error
  <2>4. CASE /\ kv' = infer.chunks /\ n_past' = Len(infer.chunks)
             /\ result' = [chunks |-> infer.chunks, state |-> cross.state,
                           embodiment |-> cross.embodiment]
             /\ answer' = Answered(result')
             /\ bitmaps' = <<>> /\ content' = <<>> /\ chat_history' = <<>> /\ uploaded' = <<>>
             /\ UNCHANGED <<policy_kind, state_flag, latest_state, embodiment_id>>
    <3>1. Gr00tInputs'
      BY <1>1, <1>7, <2>4 DEF EvalGr00t, Gr00tInputs
    <3>2. answer' = [kind |-> "ok", action |-> result', uploaded |-> bitmaps]
      BY <1>1, <2>4 DEF Answered, Gr00tInputs
    <3>3. kv' = Append(bitmaps, t) /\ Last(kv') = t
      BY <2>2, <2>4 DEF TickOf, Last, PendingInv
    <3>4. FreshTick'
      <4>1. answer.uploaded' = bitmaps
        BY <3>2
      <4>2. kv' = Append(answer.uploaded', Last(kv'))
        BY <3>3, <4>1
      <4>3. n_past' = Len(kv') /\ bitmaps' = <<>> /\ content' = <<>> /\ chat_history' = <<>>
        BY <2>4
      <4> QED BY <4>2, <4>3 DEF FreshTick
    <3>5. FreshRobotState'
      BY <1>7, <2>1, <2>4, <3>2 DEF FreshRobotState, FromPut, EvalGr00t
    <3> QED BY <2>1, <3>1, <3>4, <3>5 DEF Gr00tInv
  <2> QED BY <1>7, <2>3, <2>4 DEF EvalGr00t
<1>8. CASE UNCHANGED vars
  BY <1>0, <1>8 DEF vars, inputs, context, ghosts, Gr00tInv, Gr00tInputs, FromPut, TickOf,
     FreshTick, FreshRobotState, ok
<1>9. CASE Sleep
  <2>1. ~ok(answer)'
    BY <1>9 DEF Sleep, ok, None
  <2> QED BY <1>1, <1>9, <2>1 DEF Sleep, inputs, context, ghosts, Gr00tInv, Gr00tInputs, FromPut,
     TickOf, FreshTick, FreshRobotState
<1>10. ASSUME NEW t \in Instructions \cup {NoText} PROVE ~InferMessage(t)
  BY <1>0 DEF InferMessage
<1>11. ~EvalPi /\ ~EvalText /\ ~GenerateToken /\ ~GenerateEnd
  BY <1>1 DEF EvalPi, EvalText, GenerateToken, GenerateEnd, FromPut
<1> QED BY <1>2, <1>3, <1>4, <1>5, <1>6, <1>7, <1>8, <1>9, <1>10, <1>11 DEF Next

\* "GR00T starts each policy tick from a fresh model context and does not
\* retain conversation history": after every answered tick, of any session,
\* the context holds its images and its instruction and nothing else.
THEOREM TicksStartFresh == Spec => []FreshTick
<1>1. Gr00tInv => FreshTick
  BY DEF Gr00tInv, FreshTick
<1> QED BY PendingInit, PendingStep, Gr00tInit, Gr00tStep, <1>1, PTL DEF Spec

\* The images of a GR00T inference that fails, at whatever step, stay pending:
\* only an answer, a reset or a reload takes them.
THEOREM FailuresKeepImages == Spec => FailureKeepsImages
<1> DEFINE Kept == policy_kind = "gr00t" /\ bitmaps # <<>> /\ bitmaps' = <<>>
                     => ok(answer') \/ ~state_flag'
<1>1. PendingInv /\ Gr00tInv /\ [Next]_vars => [Kept]_vars
  <2> SUFFICES ASSUME PendingInv, Gr00tInv, Next, policy_kind = "gr00t",
                      bitmaps # <<>>, bitmaps' = <<>>
               PROVE  ok(answer') \/ ~state_flag'
    OBVIOUS
  <2>1. CASE Reset \/ Wake
    BY <2>1 DEF Reset, Wake
  <2>2. CASE EvalGr00t
    BY <2>2 DEF EvalGr00t, inputs, Answered, ok
  <2>3. ASSUME NEW i \in Images, PostImage(i) PROVE FALSE
    <3>1. bitmaps \in Seq(Images) /\ bitmaps' = Append(bitmaps, i)
      BY <2>3 DEF PostImage, PendingInv
    <3>2. Len(bitmaps') = Len(bitmaps) + 1 /\ Len(bitmaps) \in Nat
      BY <3>1
    <3> QED BY <3>2
  <2>4. ~(EvalPi \/ EvalText \/ GenerateToken \/ GenerateEnd)
    BY DEF Gr00tInv, FromPut, EvalPi, EvalText, GenerateToken, GenerateEnd
  <2>5. \A t \in Instructions \cup {NoText} : ~InferMessage(t) /\ ~InferGr00t(t)
    BY DEF InferMessage, InferGr00t, inputs
  <2>6. ASSUME NEW s \in States, NEW e \in Embodiments \cup {NoEmbodiment}, PutState(s, e)
        PROVE  FALSE
    BY <2>6 DEF PutState
  <2>7. ~Sleep
    BY DEF Sleep, inputs
  <2> QED BY <2>1, <2>2, <2>3, <2>4, <2>5, <2>6, <2>7 DEF Next
<1> QED BY PendingInit, PendingStep, Gr00tInit, Gr00tStep, <1>1, PTL DEF Spec, FailureKeepsImages

-----------------------------------------------------------------------------
(* The images of a message: mtmd_tokenize puts the k-th bitmap where the   *)
(* k-th marker was, and nothing else of a message is an image.             *)

\* When the counts agree, every piece that counts as a marker is one.
LEMMA OnlyMarkers ==
  ASSUME NEW s \in Seq(Pieces), bitmaps \in Seq(Images),
         Markers(s) = Len(bitmaps), Cardinality(Places(s)) = Len(bitmaps)
  PROVE  \A k \in DOMAIN s : HasMarker(s[k]) <=> s[k] = Marker
<1> DEFINE All == {j \in DOMAIN s : HasMarker(s[j])}
<1>1. IsFiniteSet(All)
  <2>1. IsFiniteSet(1..Len(s))
    BY FS_Interval
  <2> QED BY <2>1, FS_Subset
<1>2. Places(s) \in SUBSET All
  BY DEF Places, HasMarker
<1>3. Cardinality(Places(s)) = Cardinality(All)
  BY DEF Markers
<1>4. Places(s) = All
  <2> HIDE DEF All
  <2> QED BY <1>1, <1>2, <1>3, FS_Subset
<1> QED BY <1>4 DEF Places

\* Up to a place, the markers of the text are the markers of its beginning.
LEMMA MarkersBefore ==
  ASSUME NEW s \in Seq(Pieces), NEW k \in DOMAIN s,
         \A j \in DOMAIN s : HasMarker(s[j]) <=> s[j] = Marker
  PROVE  Markers(SubSeq(s, 1, k)) = Cardinality({j \in Places(s) : j <= k})
<1>1. k \in 1..Len(s) /\ DOMAIN s = 1..Len(s) /\ DOMAIN SubSeq(s, 1, k) = 1..k
  OBVIOUS
<1>2. \A j \in 1..k : SubSeq(s, 1, k)[j] = s[j]
  BY <1>1
<1>3. {j \in DOMAIN SubSeq(s, 1, k) : HasMarker(SubSeq(s, 1, k)[j])} = {j \in Places(s) : j <= k}
  BY <1>1, <1>2 DEF Places
<1> QED BY <1>3 DEF Markers

LEMMA TokenizedImages ==
  ASSUME NEW s \in Seq(Pieces), bitmaps \in Seq(Images),
         Markers(s) = Len(bitmaps), Cardinality(Places(s)) = Len(bitmaps)
  PROVE  ImagesAre(Tokenized(s), bitmaps) /\ Recorded(Tokenized(s)) = s
<1> DEFINE T == Tokenized(s)
           rank(k) == Cardinality({j \in Places(s) : j <= k})
<1>1. DOMAIN T = DOMAIN s /\ DOMAIN s = 1..Len(s)
  BY DEF Tokenized
<1>2. \A k \in DOMAIN s : T[k] = IF k \in Places(s) THEN bitmaps[rank(k)] ELSE s[k]
  BY OnlyMarkers, MarkersBefore DEF Tokenized, Places
<1>3. IsFiniteSet(Places(s))
  <2>1. Len(s) \in Nat /\ Places(s) \in SUBSET (1..Len(s))
    BY DEF Places
  <2>2. IsFiniteSet(1..Len(s))
    BY <2>1, FS_Interval
  <2> QED BY <2>1, <2>2, FS_Subset
<1>4. \A k \in Places(s) : rank(k) \in 1..Len(bitmaps)
  <2> TAKE k \in Places(s)
  <2>1. k \in {j \in Places(s) : j <= k} /\ {j \in Places(s) : j <= k} \in SUBSET Places(s)
    BY DEF Places
  <2>2. IsFiniteSet({j \in Places(s) : j <= k}) /\ rank(k) <= Cardinality(Places(s))
    BY <1>3, <2>1, FS_Subset
  <2>3. rank(k) \in Nat /\ rank(k) # 0
    BY <2>1, <2>2, FS_CardinalityType, FS_EmptySet
  <2> QED BY <2>2, <2>3
<1>5. \A k \in DOMAIN s : T[k] \in Images <=> k \in Places(s)
  <2> TAKE k \in DOMAIN s
  <2> HIDE DEF T, rank
  <2>1. CASE k \in Places(s)
    <3>1. T[k] = bitmaps[rank(k)] /\ rank(k) \in 1..Len(bitmaps)
      BY <1>2, <1>4, <2>1
    <3> QED BY <2>1, <3>1
  <2>2. CASE k \notin Places(s)
    <3>1. T[k] = s[k] /\ s[k] \in Pieces
      BY <1>2, <2>2
    <3>2. Images \cap Pieces = {}
      BY ForegroundAssumption DEF ForegroundAssumption, Pieces
    <3> QED BY <2>2, <3>1, <3>2
  <2> QED BY <2>1, <2>2
<1>6. ImagesAt(T) = Places(s)
  BY <1>1, <1>5 DEF ImagesAt, Places
<1>7. ImagesAre(T, bitmaps)
  <2> HIDE DEF T
  <2>1. \A k \in ImagesAt(T) : k \in DOMAIN s /\ T[k] = bitmaps[ImageRank(T, k)]
    BY <1>2, <1>6 DEF ImageRank, Places
  <2> QED BY <1>6, <2>1 DEF ImagesAre
<1>8. Recorded(T) = s
  <2>1. \A k \in DOMAIN s : (IF T[k] \in Images THEN Marker ELSE T[k]) = s[k]
    BY <1>2, <1>5 DEF Places
  <2> HIDE DEF T
  <2>2. DOMAIN Recorded(T) = DOMAIN s /\ \A k \in DOMAIN s : Recorded(T)[k] = s[k]
    BY <1>1, <2>1 DEF Recorded
  <2>3. Recorded(T) = [k \in DOMAIN s |-> s[k]]
    BY <1>1, <2>1 DEF Recorded
  <2> QED BY <2>3
<1> QED BY <1>7, <1>8

\* The message as it is evaluated, with the empty one the template makes text.
LEMMA MessageImages ==
  ASSUME NEW s \in Seq(Pieces), bitmaps \in Seq(Images),
         Markers(s) = Len(bitmaps), Cardinality(Places(s)) = Len(bitmaps)
  PROVE  /\ ImagesAre(Tokenized(Formatted(s)), bitmaps)
         /\ Recorded(Tokenized(Formatted(s))) = Formatted(s)
<1>1. CASE Formatted(s) = s
  BY <1>1, TokenizedImages
<1>2. CASE s = <<>> /\ Formatted(s) = <<NoText>>
  <2>1. <<NoText>> \in Seq(Pieces)
    BY DEF Pieces
  <2>2. Len(bitmaps) = 0
    BY <1>2, NoMarkers
  <2>3. ~HasMarker(NoText) /\ NoText # Marker
    <3>1. NoText \notin Prompts /\ NoText # Marker /\ Marked \subseteq Instructions
      BY ForegroundAssumption DEF ForegroundAssumption
    <3>2. NoText \notin [text : Marked, state : States \cup {NoState, ModelState}]
      BY <3>1 DEF Prompts
    <3> QED BY <3>1, <3>2 DEF HasMarker, Prompts
  <2>4. Places(<<NoText>>) = {} /\ Markers(<<NoText>>) = 0
    <3>1. {j \in DOMAIN <<NoText>> : HasMarker(<<NoText>>[j])} = {}
      BY <2>3
    <3>2. Places(<<NoText>>) = {}
      BY <2>3 DEF Places
    <3> QED BY <3>1, <3>2, FS_EmptySet DEF Markers
  <2>5. Cardinality(Places(<<NoText>>)) = 0
    BY <2>4, FS_EmptySet
  <2> QED BY <1>2, <2>1, <2>2, <2>4, <2>5, TokenizedImages
<1> QED BY <1>1, <1>2 DEF Formatted

\* An instruction after the images of a GR00T tick is not one of them.
LEMMA TickImages ==
  ASSUME NEW imgs \in Seq(Images), NEW t \in Instructions
  PROVE  ImagesAre(Append(imgs, t), imgs)
<1> DEFINE s == Append(imgs, t)
<1>1. t \notin Images
  BY ForegroundAssumption DEF ForegroundAssumption, Prompts
<1>2. ImagesAt(s) = 1..Len(imgs)
  BY <1>1 DEF ImagesAt
<1>3. Len(imgs) \in Nat /\ Cardinality(1..Len(imgs)) = Len(imgs)
  <2>1. \A n \in Nat : Cardinality(1..n) = n
    BY FS_Interval
  <2>2. Len(imgs) \in Nat
    OBVIOUS
  <2> QED BY <2>1, <2>2
<1>4. ASSUME NEW k \in 1..Len(imgs) PROVE s[k] = imgs[ImageRank(s, k)]
  <2>1. {j \in 1..Len(imgs) : j <= k} = 1..k
    OBVIOUS
  <2>2. Cardinality(1..k) = k
    BY FS_Interval
  <2>3. ImageRank(s, k) = k
    BY <1>2, <2>1, <2>2 DEF ImageRank
  <2> QED BY <2>3
<1> QED BY <1>2, <1>3, <1>4 DEF ImagesAre

-----------------------------------------------------------------------------
(* What an action was computed from.                                       *)

\* The images of a message under way are those uploaded for it; a PI message
\* is evaluated on the state of the last PUT, which the context still has.
MessageInv ==
    /\ infer = NoInfer => uploaded = bitmaps
    /\ infer # NoInfer /\ infer.kind \in {"pi", "text"} => ImagesAre(infer.chunks, uploaded)
    /\ infer # NoInfer /\ infer.kind = "pi" => state_flag
    /\ infer # NoInfer /\ policy_kind # "gr00t" => infer.kind # "gr00t"
    /\ state_flag /\ policy_kind # "gr00t" => cross.state = put.state
    /\ FreshAction

LEMMA MessageInit == Init => MessageInv
  BY DEF Init, MessageInv, FreshAction, ok, None

\* A step that sends no action keeps FreshAction.
LEMMA NoActionSent ==
  ASSUME answer' \in {None, Error} \/ answer'.action = NoResult
  PROVE  FreshAction'
  BY DEF FreshAction, ok, None, Error

LEMMA MessageStep == PendingInv /\ TypeInv /\ Gr00tInv /\ MessageInv /\ [Next]_vars => MessageInv'
<1> SUFFICES ASSUME PendingInv, PendingInv', TypeInv, TypeInv', Gr00tInv, Gr00tInv',
                    MessageInv, [Next]_vars
             PROVE  MessageInv'
  BY PendingStep, TypeStep, Gr00tStep
<1>0. cross \in [state : States \cup {NoState, ModelState},
                embodiment : Embodiments \cup {NoEmbodiment}, encoded : BOOLEAN]
  BY DEF TypeInv, TypeOK
<1>1. ASSUME NEW i \in Images, PostImage(i) PROVE MessageInv'
  <2>1. FreshAction'
    BY <1>1, NoActionSent DEF PostImage
  <2> QED BY <1>1, <2>1 DEF PostImage, Locked, MessageInv, context
<1>2. ASSUME NEW s \in States, NEW e \in Embodiments \cup {NoEmbodiment}, PutState(s, e)
      PROVE MessageInv'
  <2>1. FreshAction'
    BY <1>2, NoActionSent DEF PutState
  <2>2. cross'.state = s
    BY <1>0, <1>2 DEF PutState
  <2> QED BY <1>2, <2>1, <2>2 DEF PutState, Locked, MessageInv
<1>3. CASE Reset
  <2>1. FreshAction'
    BY <1>3, NoActionSent DEF Reset
  <2> QED BY <1>3, <2>1 DEF Reset, Locked, MessageInv
<1>4. CASE Wake
  <2>1. FreshAction'
    BY <1>4, NoActionSent DEF Wake
  <2> QED BY <1>4, <2>1 DEF Wake, MessageInv
<1>5. CASE Sleep
  <2>1. FreshAction'
    BY <1>5, NoActionSent DEF Sleep
  <2> QED BY <1>5, <2>1 DEF Sleep, MessageInv, inputs, context, ghosts
<1>6. ASSUME NEW t \in Instructions \cup {NoText}, InferGr00t(t) PROVE MessageInv'
  <2>1. policy_kind' = "gr00t" /\ infer = NoInfer /\ UNCHANGED <<inputs, ghosts>>
    BY <1>6 DEF InferGr00t, Gr00tReady, Locked, inputs
  <2>2. FreshAction'
    BY <1>6, NoActionSent DEF InferGr00t
  <2>3. infer' = NoInfer \/ infer'.kind = "gr00t"
    BY <1>6, <2>1 DEF InferGr00t
  <2> QED BY <2>1, <2>2, <2>3 DEF MessageInv, inputs, ghosts
<1>7. ASSUME NEW t \in Instructions \cup {NoText}, InferMessage(t) PROVE MessageInv'
  <2> DEFINE text == content \o Prompt(t)
  <2>1. infer = NoInfer /\ policy_kind # "gr00t" /\ uploaded = bitmaps
    BY <1>7 DEF InferMessage, Locked, MessageInv
  <2>2. UNCHANGED <<policy_kind, state_flag, cross, put, uploaded>>
    BY <1>7 DEF InferMessage, context
  <2>3. FreshAction'
    BY <1>7, NoActionSent DEF InferMessage
  <2>4. CASE UNCHANGED <<bitmaps, infer>>
    BY <2>1, <2>2, <2>3, <2>4 DEF MessageInv
  <2>5. CASE /\ Markers(text) = Len(bitmaps)
             /\ infer' = [kind |-> IF state_flag THEN "pi" ELSE "text", chunks |-> Tokenized(Formatted(text))]
    <3>1. text \in Seq(Pieces) /\ Places(text) = Places(content)
      BY PromptType, PromptAddsNone DEF PendingInv
    <3>2. Cardinality(Places(text)) = Len(bitmaps) /\ bitmaps \in Seq(Images)
      BY <3>1 DEF PendingInv, MarkersMatchImages, Places
    <3>3. ImagesAre(Tokenized(Formatted(text)), bitmaps)
      <4> HIDE DEF text
      <4> QED BY <2>5, <3>1, <3>2, MessageImages
    <3>4. ImagesAre(infer'.chunks, uploaded')
      BY <2>1, <2>2, <2>5, <3>3
    <3>5. infer' # NoInfer
      <4>1. Tokenized(Formatted(text)) \in Chunks
        BY <2>5, <3>1, <3>2, FormattedType
      <4> HIDE DEF text
      <4> QED BY <2>5, <4>1, InferAssumption DEF Inferences
    <3> QED BY <2>1, <2>2, <2>3, <2>5, <3>4, <3>5 DEF MessageInv
  <2> QED BY <1>7, <2>4, <2>5 DEF InferMessage
<1>8. CASE EvalGr00t
  <2>1. infer # NoInfer /\ infer.kind = "gr00t" /\ infer' = NoInfer /\ policy_kind = "gr00t"
        /\ UNCHANGED <<policy_kind, put>>
    BY <1>8 DEF EvalGr00t, MessageInv, inputs
  <2>2. uploaded' = bitmaps' /\ uploaded = bitmaps
    BY <2>1 DEF Gr00tInv, Gr00tInputs
  <2>3. FreshAction'
    <3>1. CASE answer' = Error
      BY <3>1, NoActionSent
    <3>2. CASE answer' = [kind |-> "ok", action |-> [chunks |-> infer.chunks, state |-> cross.state,
                            embodiment |-> cross.embodiment], uploaded |-> uploaded]
      <4>1. PICK t \in Instructions : infer.chunks = Append(bitmaps, t)
        BY <2>1 DEF Gr00tInv, TickOf
      <4>2. ImagesAre(infer.chunks, uploaded)
        BY <2>2, <4>1, TickImages DEF PendingInv
      <4>3. cross.state = put.state /\ cross.embodiment = put.embodiment
        BY <2>1 DEF Gr00tInv, FromPut
      <4> QED BY <2>1, <3>2, <4>2, <4>3 DEF FreshAction
    <3> QED BY <1>8, <3>1, <3>2 DEF EvalGr00t, Answered
  <2> QED BY <2>1, <2>2, <2>3 DEF MessageInv
<1>9. CASE EvalPi
  <2>1. /\ infer # NoInfer /\ infer.kind = "pi" /\ infer' = NoInfer /\ uploaded' = <<>>
        /\ UNCHANGED <<policy_kind, state_flag, put, bitmaps>>
    BY <1>9 DEF EvalPi
  <2>2. uploaded' = bitmaps'
    BY <2>1 DEF PendingInv, TakenFirst
  <2>3. cross'.state = cross.state
    BY <1>0, <1>9 DEF EvalPi
  <2>4. FreshAction'
    <3>1. CASE answer' \in {None, Error} \/ answer'.action = NoResult
      BY <3>1, NoActionSent
    <3>2. CASE answer' = [kind |-> "ok", action |-> [chunks |-> infer.chunks, state |-> cross.state,
                            embodiment |-> NoEmbodiment], uploaded |-> uploaded]
      <4>1. ImagesAre(infer.chunks, uploaded) /\ policy_kind # "gr00t" /\ cross.state = put.state
        BY <2>1 DEF MessageInv, Gr00tInv, FromPut
      <4> QED BY <2>1, <3>2, <4>1 DEF FreshAction
    <3> QED BY <1>9, <3>1, <3>2 DEF EvalPi, Answered
  <2> QED BY <2>1, <2>2, <2>3, <2>4 DEF MessageInv
<1>10. CASE EvalText
  <2>1. infer # NoInfer /\ infer.kind = "text" /\ UNCHANGED <<inputs, cross, put>>
    BY <1>10 DEF EvalText, ghosts
  <2>2. FreshAction'
    BY <1>10, NoActionSent DEF EvalText, Failed
  <2>3. \/ infer' = NoInfer /\ uploaded' = bitmaps'
        \/ infer'.kind = "generate" /\ infer' # NoInfer
    <3>1. CASE Failed
      BY <2>1, <3>1 DEF Failed, PendingInv, TakenFirst, inputs
    <3>2. CASE infer' = [kind |-> "generate", chunks |-> <<>>]
      <4>1. infer' \in Inferences
        BY <3>2 DEF Inferences, Chunks
      <4> QED BY <3>2, <4>1, InferAssumption
    <3> QED BY <1>10, <3>1, <3>2 DEF EvalText
  <2> QED BY <2>1, <2>2, <2>3 DEF MessageInv, inputs
<1>11. CASE GenerateToken
  <2>1. /\ infer # NoInfer /\ infer \in Inferences /\ infer.kind = "generate"
        /\ UNCHANGED <<inputs, cross, put>>
    BY <1>11 DEF GenerateToken, ghosts, TypeInv, TypeOK
  <2>2. FreshAction'
    BY <1>11, NoActionSent DEF GenerateToken, Failed
  <2>3. \/ infer' = NoInfer /\ uploaded' = bitmaps'
        \/ infer'.kind = "generate" /\ infer' # NoInfer
    <3>1. CASE Failed
      BY <2>1, <3>1 DEF Failed, PendingInv, TakenFirst, inputs
    <3>2. CASE infer' = [infer EXCEPT !.chunks = Append(@, Token)]
      <4>1. infer' \in Inferences
        BY <2>1, <3>2 DEF Inferences, Chunks
      <4>2. infer'.kind = "generate"
        BY <2>1, <3>2 DEF Inferences
      <4> QED BY <4>1, <4>2, InferAssumption
    <3> QED BY <1>11, <3>1, <3>2 DEF GenerateToken
  <2> QED BY <2>1, <2>2, <2>3 DEF MessageInv, inputs
<1>12. CASE GenerateEnd
  <2>1. FreshAction'
    BY <1>12, NoActionSent DEF GenerateEnd, Answered
  <2>2. uploaded' = bitmaps'
    BY <1>12 DEF GenerateEnd, PendingInv, TakenFirst
  <2> QED BY <1>12, <2>1, <2>2 DEF GenerateEnd, MessageInv, context
<1>13. CASE UNCHANGED vars
  BY <1>13 DEF vars, inputs, context, ghosts, MessageInv, FreshAction, ImagesAre, ImagesAt, ImageRank, ok
<1> QED BY <1>1, <1>2, <1>3, <1>4, <1>5, <1>6, <1>7, <1>8, <1>9, <1>10, <1>11, <1>12, <1>13 DEF Next

\* An action a client is sent was computed from the images uploaded since the
\* last inference, in their order, and from the state and embodiment of the last
\* PUT that succeeded: for any uploads, failures, retries, resets and reloads.
THEOREM ActionsAreFresh == Spec => []FreshAction
<1>1. MessageInv => FreshAction
  BY DEF MessageInv
<1> QED BY PendingInit, PendingStep, TypeInit, TypeStep, Gr00tInit, Gr00tStep,
           MessageInit, MessageStep, <1>1, PTL DEF Spec

-----------------------------------------------------------------------------
(* Induction over the naturals, from the order of inclusion.               *)

LEMMA Least ==
  ASSUME NEW T \in SUBSET Nat, T # {}
  PROVE  \E n \in T : \A m \in T : n <= m
<1> DEFINE U == {0..n : n \in T}
           Sub == StrictSubsetOrdering(Nat)
<1>1. U \subseteq FiniteSubsetsOf(Nat) /\ U # {}
  <2>1. \A n \in T : 0..n \in SUBSET Nat /\ IsFiniteSet(0..n)
    BY FS_Interval
  <2> QED BY <2>1 DEF FiniteSubsetsOf
<1>2. \E x \in U : \A y \in U : ~(<<y, x>> \in Sub)
  <2>1. IsWellFoundedOn(Sub, FiniteSubsetsOf(Nat))
    BY FS_StrictSubsetOrderingWellFounded
  <2> HIDE DEF U, Sub
  <2> QED BY <1>1, <2>1, WFMin
<1>3. PICK n \in T : \A m \in T : ~(<<0..m, 0..n>> \in Sub)
  BY <1>2
<1>4. \A m \in T : n <= m
  <2> SUFFICES ASSUME NEW m \in T, m < n PROVE FALSE
    OBVIOUS
  <2>1. 0..m \subseteq 0..n /\ n \in 0..n /\ n \notin 0..m
    OBVIOUS
  <2>2. 0..m # 0..n /\ 0..m \in SUBSET Nat /\ 0..n \in SUBSET Nat
    BY <2>1
  <2> QED BY <1>3, <2>1, <2>2 DEF StrictSubsetOrdering
<1> QED BY <1>4

LEMMA Induct ==
  ASSUME NEW T, 0 \in T, \A n \in Nat : n \in T => n + 1 \in T
  PROVE  \A n \in Nat : n \in T
<1> SUFFICES ASSUME Nat \ T # {} PROVE FALSE
  OBVIOUS
<1>1. PICK n \in Nat \ T : \A m \in Nat \ T : n <= m
  BY Least
<1> QED BY <1>1

-----------------------------------------------------------------------------
(* The transcript: what a new message adds to it.                          *)

\* f is the table that FlattenSeq computes, as far as n.
Sums(f, ss, n) ==
    f = [i \in 1..n |-> IF i = 1 THEN ss[i] ELSE f[i - 1] \o ss[i]]

\* The same, entry by entry.
LEMMA SumsAre ==
  ASSUME NEW ss, NEW n \in Nat, NEW f
  PROVE  Sums(f, ss, n) <=>
           /\ f = [i \in 1..n |-> f[i]]
           /\ \A i \in 1..n : f[i] = IF i = 1 THEN ss[i] ELSE f[i - 1] \o ss[i]
<1> DEFINE h == [i \in 1..n |-> IF i = 1 THEN ss[i] ELSE f[i - 1] \o ss[i]]
<1>1. Sums(f, ss, n) <=> f = h
  BY DEF Sums
<1>2. /\ h = [i \in 1..n |-> h[i]]
      /\ \A i \in 1..n : h[i] = IF i = 1 THEN ss[i] ELSE f[i - 1] \o ss[i]
  OBVIOUS
<1> HIDE DEF h
<1>3. ASSUME f = h
      PROVE  /\ f = [i \in 1..n |-> f[i]]
             /\ \A i \in 1..n : f[i] = IF i = 1 THEN ss[i] ELSE f[i - 1] \o ss[i]
  BY <1>2, <1>3
<1>4. ASSUME f = [i \in 1..n |-> f[i]],
             \A i \in 1..n : f[i] = IF i = 1 THEN ss[i] ELSE f[i - 1] \o ss[i]
      PROVE  f = h
  <2>1. \A i \in 1..n : f[i] = h[i]
    BY <1>2, <1>4
  <2> QED BY <1>2, <1>4, <2>1
<1> QED BY <1>1, <1>3, <1>4

LEMMA SumsAt ==
  ASSUME NEW ss, NEW n \in Nat, NEW f, Sums(f, ss, n), NEW i \in 1..n
  PROVE  f[i] = IF i = 1 THEN ss[i] ELSE f[i - 1] \o ss[i]
BY SumsAre

LEMMA SumsMade ==
  ASSUME NEW ss, NEW n \in Nat, NEW f, f = [i \in 1..n |-> f[i]],
         \A i \in 1..n : f[i] = IF i = 1 THEN ss[i] ELSE f[i - 1] \o ss[i]
  PROVE  Sums(f, ss, n)
BY SumsAre

LEMMA SumsExist ==
  ASSUME NEW ss, Len(ss) \in Nat
  PROVE  \E f : Sums(f, ss, Len(ss))
<1> DEFINE T == {n \in Nat : \E f : Sums(f, ss, n)}
<1>1. 0 \in T
  <2> DEFINE f == [i \in 1..0 |-> ss[i]]
  <2>1. f = [i \in 1..0 |-> f[i]] /\ 1..0 = {}
    OBVIOUS
  <2> HIDE DEF f
  <2>2. Sums(f, ss, 0)
    BY <2>1, SumsMade
  <2> QED BY <2>2
<1>2. ASSUME NEW n \in Nat, n \in T PROVE n + 1 \in T
  <2>1. PICK f : Sums(f, ss, n)
    BY <1>2
  <2> DEFINE last == IF n = 0 THEN ss[1] ELSE f[n] \o ss[n + 1]
             g == [i \in 1..(n + 1) |-> IF i = n + 1 THEN last ELSE f[i]]
  <2>2. /\ g = [i \in 1..(n + 1) |-> g[i]]
        /\ g[n + 1] = last /\ \A i \in 1..n : g[i] = f[i]
    <3> HIDE DEF last, T
    <3>1. n + 1 \in 1..(n + 1) /\ \A i \in 1..n : i \in 1..(n + 1) /\ i # n + 1
      OBVIOUS
    <3> QED BY <3>1
  <2>3. \A i \in 1..n : f[i] = IF i = 1 THEN ss[i] ELSE f[i - 1] \o ss[i]
    BY <2>1, SumsAt
  <2>4. last = IF n + 1 = 1 THEN ss[n + 1] ELSE f[n] \o ss[n + 1]
    OBVIOUS
  <2> HIDE DEF g, last, T
  <2>5. ASSUME NEW i \in 1..(n + 1)
        PROVE  g[i] = IF i = 1 THEN ss[i] ELSE g[i - 1] \o ss[i]
    <3>1. i # 1 => i - 1 \in 1..n
      OBVIOUS
    <3>2. i # 1 => g[i - 1] = f[i - 1]
      BY <2>2, <3>1
    <3>3. CASE i = n + 1
      <4>1. i - 1 = n
        BY <3>3
      <4> QED BY <2>2, <2>4, <3>2, <3>3, <4>1
    <3>4. CASE i \in 1..n
      BY <2>2, <2>3, <3>2, <3>4
    <3> QED BY <3>3, <3>4
  <2>6. Sums(g, ss, n + 1)
    <3> DEFINE m == n + 1
    <3>1. m \in Nat /\ g = [i \in 1..m |-> g[i]]
      BY <2>2
    <3>2. \A i \in 1..m : g[i] = IF i = 1 THEN ss[i] ELSE g[i - 1] \o ss[i]
      BY <2>5
    <3> HIDE DEF m
    <3>3. Sums(g, ss, m)
      BY <3>1, <3>2, SumsMade
    <3> QED BY <3>3 DEF m
  <2> QED BY <2>6 DEF T
<1>3. \A n \in Nat : n \in T
  <2> HIDE DEF T
  <2> QED BY <1>1, <1>2, Induct
<1> QED BY <1>3

LEMMA FlattenIs ==
  ASSUME NEW ss, Len(ss) \in Nat \ {0}
  PROVE  \E f : Sums(f, ss, Len(ss)) /\ FlattenSeq(ss) = f[Len(ss)]
<1> DEFINE f == CHOOSE f : Sums(f, ss, Len(ss))
<1>1. Sums(f, ss, Len(ss))
  BY SumsExist
<1>2. FlattenSeq(ss) = f[Len(ss)]
  BY DEF FlattenSeq, Sums
<1> QED BY <1>1, <1>2

\* Two tables agree as far as the sequences do.
LEMMA FlattenAgrees ==
  ASSUME NEW S, NEW ss \in Seq(Seq(S)), NEW s \in Seq(S),
         NEW f, Sums(f, ss, Len(ss)), NEW g, Sums(g, Append(ss, s), Len(ss) + 1)
  PROVE  \A n \in 1..Len(ss) : g[n] = f[n] /\ f[n] \in Seq(S)
<1> DEFINE T == {n \in Nat : n \in 1..Len(ss) => g[n] = f[n] /\ f[n] \in Seq(S)}
<1>1. 0 \in T
  OBVIOUS
<1>2. ASSUME NEW n \in Nat, n \in T PROVE n + 1 \in T
  <2> SUFFICES ASSUME n + 1 \in 1..Len(ss) PROVE g[n + 1] = f[n + 1] /\ f[n + 1] \in Seq(S)
    OBVIOUS
  <2>1. /\ Append(ss, s)[n + 1] = ss[n + 1] /\ ss[n + 1] \in Seq(S)
        /\ Len(Append(ss, s)) = Len(ss) + 1 /\ n + 1 \in 1..(Len(ss) + 1)
    OBVIOUS
  <2>a. Len(ss) \in Nat /\ Len(ss) + 1 \in Nat /\ (n + 1) - 1 = n
    OBVIOUS
  <2> HIDE DEF T
  <2>2. f[n + 1] = IF n + 1 = 1 THEN ss[n + 1] ELSE f[(n + 1) - 1] \o ss[n + 1]
    BY <2>a, SumsAt
  <2>3. g[n + 1] = IF n + 1 = 1 THEN ss[n + 1] ELSE g[(n + 1) - 1] \o ss[n + 1]
    <3> DEFINE tt == Append(ss, s)
    <3>1. g[n + 1] = IF n + 1 = 1 THEN tt[n + 1] ELSE g[(n + 1) - 1] \o tt[n + 1]
      <4> DEFINE m == Len(ss) + 1
      <4>1. m \in Nat /\ n + 1 \in 1..m /\ Sums(g, tt, m)
        BY <2>1, <2>a
      <4> HIDE DEF tt, m
      <4> QED BY <4>1, SumsAt
    <3> QED BY <2>1, <3>1
  <2>4. n # 0 => g[n] = f[n] /\ f[n] \in Seq(S)
    BY <1>2 DEF T
  <2> QED BY <2>1, <2>2, <2>3, <2>4, <2>a
<1>3. \A n \in Nat : n \in T
  <2> HIDE DEF T
  <2> QED BY <1>1, <1>2, Induct
<1> QED BY <1>3

LEMMA FlattenAppend ==
  ASSUME NEW S, NEW ss \in Seq(Seq(S)), NEW s \in Seq(S)
  PROVE  FlattenSeq(Append(ss, s)) = FlattenSeq(ss) \o s
<1> DEFINE n == Len(ss)  tt == Append(ss, s)
<1>1. n \in Nat /\ Len(tt) = n + 1 /\ tt[n + 1] = s
  OBVIOUS
<1>2. PICK g : Sums(g, tt, n + 1) /\ FlattenSeq(tt) = g[n + 1]
  <2> HIDE DEF tt
  <2> QED BY <1>1, FlattenIs
<1>3. g[n + 1] = IF n = 0 THEN s ELSE g[n] \o s
  <2>1. n + 1 \in Nat /\ n + 1 \in 1..(n + 1) /\ (n + 1) - 1 = n
    BY <1>1
  <2> HIDE DEF tt, n
  <2>2. g[n + 1] = IF n + 1 = 1 THEN tt[n + 1] ELSE g[(n + 1) - 1] \o tt[n + 1]
    BY <1>2, <2>1, SumsAt
  <2> QED BY <1>1, <2>1, <2>2
<1>4. CASE n = 0
  <2>1. ss = <<>> /\ FlattenSeq(ss) = ss
    BY <1>4 DEF FlattenSeq
  <2> QED BY <1>2, <1>3, <1>4, <2>1
<1>5. CASE n # 0
  <2>1. PICK f : Sums(f, ss, n) /\ FlattenSeq(ss) = f[n]
    BY <1>1, <1>5, FlattenIs
  <2>2. g[n] = f[n]
    BY <1>1, <1>2, <1>5, <2>1, FlattenAgrees
  <2> QED BY <1>2, <1>3, <1>5, <2>1, <2>2
<1> QED BY <1>4, <1>5

LEMMA FlattenType ==
  ASSUME NEW S, NEW ss \in Seq(Seq(S))
  PROVE  FlattenSeq(ss) \in Seq(S)
<1> DEFINE n == Len(ss)  tt == Append(ss, <<>>)
<1>1. n \in Nat /\ Len(tt) = n + 1 /\ <<>> \in Seq(S)
  OBVIOUS
<1>2. CASE n = 0
  <2>1. ss = <<>>
    BY <1>2
  <2>2. FlattenSeq(<<>>) = <<>>
    BY DEF FlattenSeq
  <2> QED BY <2>1, <2>2, <1>1, Zenon
<1>3. CASE n # 0
  <2>1. PICK f : Sums(f, ss, n) /\ FlattenSeq(ss) = f[n]
    BY <1>1, <1>3, FlattenIs
  <2>2. PICK g : Sums(g, tt, n + 1)
    <3> HIDE DEF tt
    <3> QED BY <1>1, SumsExist
  <2>3. f[n] \in Seq(S)
    <3>1. Sums(f, ss, Len(ss)) /\ Sums(g, Append(ss, <<>>), Len(ss) + 1) /\ n \in 1..Len(ss)
      BY <1>1, <1>3, <2>1, <2>2
    <3>2. \A i \in 1..Len(ss) : g[i] = f[i] /\ f[i] \in Seq(S)
      BY <1>1, <3>1, FlattenAgrees
    <3> QED BY <3>1, <3>2
  <2> QED BY <2>1, <2>3
<1> QED BY <1>2, <1>3

-----------------------------------------------------------------------------
(* A text conversation.                                                    *)

\* A new message is added at the end of the transcript.
LEMMA TranscriptGrows ==
  ASSUME chat_history \in Seq(Messages), NEW m \in Messages,
         chat_history' = Append(chat_history, m)
  PROVE  Transcript' = Transcript \o m.content
<1> DEFINE S == Pieces \cup {Token}
           texts == [k \in DOMAIN chat_history |-> chat_history[k].content]
<1>1. texts \in Seq(Seq(S)) /\ m.content \in Seq(S)
  <2>1. \A h \in Messages : h.content \in Seq(S)
    BY DEF Messages
  <2> HIDE DEF S
  <2> QED BY <2>1
<1>2. [k \in DOMAIN chat_history' |-> chat_history'[k].content] = Append(texts, m.content)
  OBVIOUS
<1>3. FlattenSeq(Append(texts, m.content)) = FlattenSeq(texts) \o m.content
  <2> HIDE DEF texts, S
  <2> QED BY <1>1, FlattenAppend
<1> QED BY <1>2, <1>3 DEF Transcript

LEMMA TranscriptType ==
  ASSUME chat_history \in Seq(Messages)
  PROVE  Transcript \in Seq(Pieces \cup {Token})
<1> DEFINE S == Pieces \cup {Token}
           texts == [k \in DOMAIN chat_history |-> chat_history[k].content]
<1>1. texts \in Seq(Seq(S))
  <2>1. \A h \in Messages : h.content \in Seq(S)
    BY DEF Messages
  <2> HIDE DEF S
  <2> QED BY <2>1
<1>2. FlattenSeq(texts) \in Seq(S)
  <2> HIDE DEF texts, S
  <2> QED BY <1>1, FlattenType
<1> QED BY <1>2 DEF Transcript

LEMMA TranscriptEmpty ==
  ASSUME chat_history = <<>>
  PROVE  Transcript = <<>>
<1>1. [k \in DOMAIN chat_history |-> chat_history[k].content] = <<>>
  OBVIOUS
<1> QED BY <1>1 DEF Transcript, FlattenSeq

\* What is recorded of two parts, one after the other.
LEMMA RecordedConcat ==
  ASSUME NEW a \in Chunks, NEW b \in Chunks
  PROVE  Recorded(a \o b) = Recorded(a) \o Recorded(b)
<1> DEFINE text(p) == IF p \in Images THEN Marker ELSE p
<1>1. Len(a) \in Nat /\ Len(b) \in Nat
  BY DEF Chunks
<1>2. Recorded(a) = [k \in 1..Len(a) |-> text(a[k])] /\ Recorded(b) = [k \in 1..Len(b) |-> text(b[k])]
  BY DEF Chunks, Recorded
<1>3. Recorded(a \o b) = [k \in 1..(Len(a) + Len(b)) |-> text((a \o b)[k])]
  BY DEF Chunks, Recorded
<1>4. Recorded(a) \o Recorded(b) =
        [k \in 1..(Len(a) + Len(b)) |-> IF k <= Len(a) THEN text(a[k]) ELSE text(b[k - Len(a)])]
  <2> HIDE DEF text
  <2> QED BY <1>1, <1>2
<1>5. \A k \in 1..(Len(a) + Len(b)) :
        (a \o b)[k] = IF k <= Len(a) THEN a[k] ELSE b[k - Len(a)]
  BY DEF Chunks
<1> QED BY <1>3, <1>4, <1>5

LEMMA RecordedType ==
  ASSUME NEW a \in Chunks
  PROVE  Recorded(a) \in Seq(Pieces \cup {Token}) /\ Len(Recorded(a)) = Len(a)
  BY DEF Chunks, Recorded, Pieces

LEMMA RecordedTokens ==
  ASSUME NEW a \in Seq({Token})
  PROVE  Recorded(a) = a /\ a \in Chunks
<1>1. Token \notin Images
  BY ForegroundAssumption DEF ForegroundAssumption
<1>2. a = [k \in DOMAIN a |-> a[k]] /\ \A k \in DOMAIN a : a[k] = Token
  OBVIOUS
<1> QED BY <1>1, <1>2 DEF Recorded, Chunks

\* Between two messages the context holds the transcript; while one is
\* evaluated its text is still to come, and the reply is not recorded yet.
TextInv ==
    policy_kind = "text" =>
        /\ ~state_flag /\ ~cross.encoded
        /\ kv = <<>> => n_past = 0
        /\ infer = NoInfer =>
             /\ clean => Recorded(kv) = Transcript
             /\ clean \/ ok(answer) => n_past = Len(kv)
        /\ infer # NoInfer => infer.kind \in {"text", "generate"}
        /\ infer # NoInfer /\ infer.kind = "text" =>
             /\ infer.chunks # <<>>
             /\ clean => Recorded(kv) \o Recorded(infer.chunks) = Transcript /\ n_past = Len(kv)
        /\ infer # NoInfer /\ infer.kind = "generate" =>
             /\ kv # <<>> /\ n_past = Len(kv)
             /\ clean => Recorded(kv) = Transcript \o infer.chunks

LEMMA TextInit == Init => TextInv
<1> SUFFICES ASSUME Init PROVE TextInv
  OBVIOUS
<1>1. Recorded(<<>>) = <<>>
  BY DEF Recorded
<1>2. Transcript = <<>>
  BY TranscriptEmpty DEF Init
<1> QED BY <1>1, <1>2 DEF Init, TextInv, NewContext, ok, None

\* A session that has just been wiped.
LEMMA TextWiped ==
  ASSUME kv' = <<>>, chat_history' = <<>>, n_past' = 0, infer' = NoInfer,
         state_flag' = FALSE, policy_kind' = "text" => ~cross'.encoded
  PROVE  TextInv'
<1>1. Recorded(<<>>) = <<>>
  BY DEF Recorded
<1>2. Transcript' = <<>>
  <2>1. [k \in DOMAIN chat_history' |-> chat_history'[k].content] = <<>>
    OBVIOUS
  <2> QED BY <2>1 DEF Transcript, FlattenSeq
<1> QED BY <1>1, <1>2 DEF TextInv

\* An inference that has failed.
LEMMA TextFailed ==
  ASSUME policy_kind' = "text" => ~state_flag' /\ ~cross'.encoded,
         infer' = NoInfer, ~clean', answer' = Error, kv' = <<>> => n_past' = 0
  PROVE  TextInv'
  BY DEF TextInv, ok, Error

LEMMA TextStep == PendingInv /\ TypeInv /\ TextInv /\ [Next]_vars => TextInv'
<1> SUFFICES ASSUME PendingInv, TypeInv, TypeInv', TextInv, [Next]_vars, policy_kind' = "text"
             PROVE  TextInv'
  BY TypeStep DEF TextInv
<1>0. policy_kind = "text"
  BY DEF Next, vars, inputs, PostImage, PutState, Reset, InferGr00t, InferMessage,
         EvalGr00t, EvalPi, EvalText, GenerateToken, GenerateEnd, Sleep, Wake
<1>t. /\ kv \in Chunks /\ kv' \in Chunks /\ n_past \in Nat /\ chat_history \in Seq(Messages)
      /\ infer # NoInfer => infer.chunks \in Chunks
      /\ infer # NoInfer /\ infer.kind = "generate" => infer.chunks \in Seq({Token})
  BY DEF TypeInv, TypeOK, Inferences
<1>1. CASE UNCHANGED <<policy_kind, state_flag, cross, kv, n_past, infer, clean, chat_history>>
           /\ ~ok(answer')
  BY <1>0, <1>1 DEF TextInv, Transcript, Recorded
<1>2. ASSUME NEW i \in Images, PostImage(i) PROVE TextInv'
  BY <1>1, <1>2 DEF PostImage, context, ok, None
<1>3. ASSUME NEW s \in States, NEW e \in Embodiments \cup {NoEmbodiment} PROVE ~PutState(s, e)
  BY <1>0 DEF PutState
<1>4. CASE Reset
  BY <1>0, <1>4, TextWiped DEF Reset, Locked, TextInv
<1>5. CASE Wake
  BY <1>0, <1>5, TextWiped DEF Wake, TextInv, NewContext
<1>6. CASE Sleep
  BY <1>1, <1>6 DEF Sleep, inputs, context, ghosts, ok, None
<1>7. ~EvalGr00t /\ ~EvalPi
  BY <1>0 DEF EvalGr00t, EvalPi, TextInv
<1>8. \A t \in Instructions \cup {NoText} : ~InferGr00t(t)
  BY <1>0 DEF InferGr00t, Gr00tReady
<1>9. ASSUME NEW t \in Instructions \cup {NoText}, InferMessage(t) PROVE TextInv'
  <2> DEFINE text == content \o Prompt(t)
             m == [role |-> "user", content |-> Formatted(text)]
  <2>1. infer = NoInfer /\ ~state_flag /\ UNCHANGED <<policy_kind, n_past, state_flag, cross, kv>>
    BY <1>0, <1>9 DEF InferMessage, Locked, context, TextInv
  <2>2. CASE answer' = Error /\ clean' = FALSE /\ UNCHANGED infer
    BY <1>0, <2>1, <2>2, TextFailed DEF TextInv
  <2>3. CASE /\ Markers(text) = Len(bitmaps)
             /\ infer' = [kind |-> IF state_flag THEN "pi" ELSE "text", chunks |-> Tokenized(Formatted(text))]
             /\ answer' = None /\ UNCHANGED clean
    <3>1. text \in Seq(Pieces) /\ Places(text) = Places(content)
      BY PromptType, PromptAddsNone DEF PendingInv
    <3>2. Cardinality(Places(text)) = Len(bitmaps) /\ bitmaps \in Seq(Images)
      BY <3>1 DEF PendingInv, MarkersMatchImages, Places
    <3>3. Recorded(Tokenized(Formatted(text))) = Formatted(text)
      <4> HIDE DEF text
      <4> QED BY <2>3, <3>1, <3>2, MessageImages
    <3>4. Transcript' = Transcript \o Formatted(text)
      <4>1. Formatted(text) \in Seq(Pieces \cup {Token})
        BY <3>1, FormattedText
      <4> HIDE DEF text
      <4>2. m \in Messages
        BY <4>1 DEF Messages
      <4>3. chat_history' = Append(chat_history, m)
        BY <1>9 DEF InferMessage, text
      <4> QED BY <1>t, <4>2, <4>3, TranscriptGrows
    <3>5. Tokenized(Formatted(text)) # <<>>
      <4>1. Formatted(text) # <<>>
        BY <2>1 DEF Formatted
      <4>2. DOMAIN Tokenized(Formatted(text)) = DOMAIN Formatted(text)
        BY DEF Tokenized
      <4>3. Formatted(text) \in Seq(Pieces \cup {Token})
        BY <3>1, FormattedText
      <4>4. DOMAIN Formatted(text) # {}
        <5> DEFINE u == Formatted(text)  S == Pieces \cup {Token}
        <5>1. u \in Seq(S) /\ u # <<>>
          BY <4>1, <4>3
        <5> HIDE DEF u, S
        <5>2. Len(u) \in Nat \ {0} /\ DOMAIN u = 1..Len(u)
          BY <5>1, EmptySeq
        <5> QED BY <5>2 DEF u
      <4> QED BY <4>2, <4>4
    <3>6. infer' # NoInfer
      <4>1. Tokenized(Formatted(text)) \in Chunks
        BY <2>3, <3>1, <3>2, FormattedType
      <4> HIDE DEF text
      <4> QED BY <2>3, <4>1, InferAssumption DEF Inferences
    <3>7. infer'.kind = "text" /\ infer'.chunks = Tokenized(Formatted(text))
      BY <2>1, <2>3
    <3>8. clean => Recorded(kv) = Transcript /\ n_past = Len(kv)
      BY <1>0, <2>1 DEF TextInv
    <3>9. Recorded(kv)' = Recorded(kv)
      BY <2>1 DEF Recorded
    <3> HIDE DEF text
    <3>10. clean' => Recorded(kv)' \o Recorded(infer'.chunks) = Transcript' /\ n_past' = Len(kv')
      BY <2>1, <2>3, <3>3, <3>4, <3>7, <3>8, <3>9
    <3> QED BY <1>0, <2>1, <3>5, <3>6, <3>7, <3>10 DEF TextInv, Recorded
  <2> QED BY <1>9, <2>2, <2>3 DEF InferMessage
<1>10. CASE EvalText
  <2>1. infer # NoInfer /\ infer.kind = "text" /\ UNCHANGED <<policy_kind, state_flag, cross, chat_history>>
    BY <1>10 DEF EvalText, inputs
  <2>2. ~state_flag /\ ~cross.encoded /\ (kv = <<>> => n_past = 0)
    BY <1>0 DEF TextInv
  <2>3. CASE Failed /\ UNCHANGED n_past /\ \E done \in Prefixes(infer.chunks) :
               Store(IF Consecutive THEN done ELSE <<>>)
    <3>1. PICK done \in Chunks : kv' = kv \o done
      <4>1. PICK d \in Prefixes(infer.chunks) : Store(IF Consecutive THEN d ELSE <<>>)
        BY <2>3
      <4>2. d \in Chunks /\ <<>> \in Chunks
        BY <1>t, <2>1, PrefixType DEF Chunks
      <4> QED BY <2>2, <4>1, <4>2 DEF Store
    <3>2. kv' = <<>> => kv = <<>>
      <4>1. Len(kv') = Len(kv) + Len(done) /\ Len(kv) \in Nat /\ Len(done) \in Nat
        BY <1>t, <3>1 DEF Chunks
      <4>2. kv # <<>> => Len(kv) # 0
        BY <1>t, EmptySeq DEF Chunks
      <4> QED BY <4>1, <4>2
    <3> QED BY <2>1, <2>2, <2>3, <3>2, TextFailed DEF Failed
  <2>4. CASE /\ Consecutive /\ Store(infer.chunks)
             /\ n_past' = n_past + Len(infer.chunks)
             /\ infer' = [kind |-> "generate", chunks |-> <<>>]
             /\ UNCHANGED ghosts
    <3>1. kv' = kv \o infer.chunks /\ infer.chunks # <<>> /\ infer.chunks \in Chunks
      BY <1>t, <1>0, <2>1, <2>2, <2>4 DEF Store, TextInv
    <3>2. n_past = Len(kv)
      BY <1>t, <2>2, <2>4 DEF Consecutive, Chunks
    <3>3. kv' # <<>> /\ Len(kv') = Len(kv) + Len(infer.chunks)
      BY <1>t, <3>1 DEF Chunks
    <3>4. Recorded(kv)' = Recorded(kv) \o Recorded(infer.chunks)
      <4>1. Recorded(kv)' = Recorded(kv \o infer.chunks)
        BY <3>1 DEF Recorded
      <4> QED BY <1>t, <3>1, <4>1, RecordedConcat
    <3>5. Transcript' = Transcript
      BY <2>1 DEF Transcript
    <3>6. clean' => Recorded(kv)' = Transcript' \o <<>>
      <4>1. Recorded(kv) \o Recorded(infer.chunks) \in Seq(Pieces \cup {Token})
        BY <1>t, <3>1, RecordedType
      <4>2. clean => Recorded(kv) \o Recorded(infer.chunks) = Transcript
        BY <1>0, <2>1 DEF TextInv
      <4> QED BY <2>4, <3>4, <3>5, <4>1, <4>2 DEF ghosts
    <3>7. infer' # NoInfer
      <4>1. infer' \in Inferences
        BY <2>4 DEF Inferences, Chunks
      <4> QED BY <4>1, InferAssumption
    <3>8. infer'.kind = "generate" /\ infer'.chunks = <<>>
      BY <2>4
    <3> QED BY <2>1, <2>2, <2>4, <3>2, <3>3, <3>6, <3>7, <3>8 DEF TextInv
  <2> QED BY <1>10, <2>3, <2>4 DEF EvalText
<1>11. CASE GenerateToken
  <2>1. /\ infer # NoInfer /\ infer.kind = "generate" /\ n_past' = n_past + 1
        /\ UNCHANGED <<policy_kind, state_flag, cross, chat_history>>
    BY <1>11 DEF GenerateToken, inputs
  <2>2. /\ ~state_flag /\ ~cross.encoded /\ kv # <<>> /\ n_past = Len(kv)
        /\ clean => Recorded(kv) = Transcript \o infer.chunks
    BY <1>0, <2>1 DEF TextInv
  <2>3. CASE Failed /\ UNCHANGED kv
    BY <2>1, <2>2, <2>3, TextFailed DEF Failed
  <2>4. CASE /\ Store(<<Token>>) /\ infer' = [infer EXCEPT !.chunks = Append(@, Token)]
             /\ UNCHANGED ghosts
    <3>1. kv' = kv \o <<Token>> /\ infer \in Inferences /\ infer.chunks \in Seq({Token})
      BY <1>t, <2>1, <2>2, <2>4 DEF Store, TypeInv, TypeOK
    <3>2. infer' # NoInfer /\ infer'.kind = "generate" /\ infer'.chunks = Append(infer.chunks, Token)
      <4>1. infer' = [kind |-> "generate", chunks |-> Append(infer.chunks, Token)]
        BY <2>1, <2>4, <3>1 DEF Inferences
      <4>2. infer' \in Inferences
        BY <3>1, <4>1 DEF Inferences, Chunks
      <4> QED BY <4>1, <4>2, InferAssumption
    <3>3. kv' # <<>> /\ n_past' = Len(kv')
      BY <1>t, <2>1, <2>2, <3>1 DEF Chunks
    <3>4. Transcript' = Transcript
      BY <2>1 DEF Transcript
    <3>5. clean' => Recorded(kv)' = Transcript' \o infer'.chunks
      <4> SUFFICES ASSUME clean PROVE Recorded(kv)' = Transcript \o Append(infer.chunks, Token)
        BY <2>4, <3>2, <3>4 DEF ghosts
      <4>1. <<Token>> \in Seq({Token})
        OBVIOUS
      <4>2. Recorded(kv)' = Recorded(kv) \o <<Token>>
        <5>1. Recorded(kv)' = Recorded(kv')
          BY DEF Recorded
        <5>2. <<Token>> \in Chunks /\ Recorded(<<Token>>) = <<Token>>
          BY <4>1, RecordedTokens
        <5> QED BY <1>t, <3>1, <5>1, <5>2, RecordedConcat
      <4>3. Transcript \in Seq(Pieces \cup {Token})
        BY <1>t, TranscriptType
      <4>5. Append(infer.chunks, Token) = infer.chunks \o <<Token>>
        BY <3>1
      <4>6. infer.chunks \in Seq(Pieces \cup {Token}) /\ <<Token>> \in Seq(Pieces \cup {Token})
        BY <3>1
      <4>7. (Transcript \o infer.chunks) \o <<Token>> = Transcript \o (infer.chunks \o <<Token>>)
        <5> DEFINE S == Pieces \cup {Token}
        <5>1. Transcript \in Seq(S) /\ infer.chunks \in Seq(S) /\ <<Token>> \in Seq(S)
          BY <4>3, <4>6
        <5> DEFINE a == Transcript  b == infer.chunks  c == <<Token>>
        <5>2. a \in Seq(S) /\ b \in Seq(S) /\ c \in Seq(S)
          BY <5>1
        <5> HIDE DEF S, a, b, c
        <5>3. (a \o b) \o c = a \o (b \o c)
          BY <5>2, ConcatAssociative
        <5> QED BY <5>3 DEF a, b, c
      <4> QED BY <2>2, <4>2, <4>5, <4>7
    <3> QED BY <2>1, <2>2, <3>2, <3>3, <3>5 DEF TextInv
  <2> QED BY <1>11, <2>3, <2>4 DEF GenerateToken
<1>12. CASE GenerateEnd
  <2>1. /\ infer # NoInfer /\ infer.kind = "generate" /\ infer' = NoInfer
        /\ UNCHANGED <<policy_kind, state_flag, cross, kv, n_past, clean>>
    BY <1>12 DEF GenerateEnd, context
  <2>2. /\ ~state_flag /\ ~cross.encoded /\ kv # <<>> /\ n_past = Len(kv)
        /\ clean => Recorded(kv) = Transcript \o infer.chunks
    BY <1>0, <2>1 DEF TextInv
  <2>3. Transcript' = Transcript \o infer.chunks
    <3> DEFINE m == [role |-> "assistant", content |-> infer.chunks]
    <3>1. m \in Messages
      BY <1>t, <2>1 DEF Messages
    <3>2. chat_history' = Append(chat_history, m)
      BY <1>12 DEF GenerateEnd
    <3> QED BY <1>t, <3>1, <3>2, TranscriptGrows
  <2>4. Recorded(kv)' = Recorded(kv)
    BY <2>1 DEF Recorded
  <2> QED BY <2>1, <2>2, <2>3, <2>4 DEF TextInv
<1>13. CASE UNCHANGED vars
  BY <1>13 DEF vars, inputs, context, ghosts, TextInv, Transcript, Recorded, ok
<1> QED BY <1>2, <1>3, <1>4, <1>5, <1>6, <1>7, <1>8, <1>9, <1>10, <1>11, <1>12, <1>13 DEF Next

\* In a text session that has not failed since its reset the context holds the
\* recorded conversation and nothing else, and n_past is where it ends; an answer
\* is given on consecutive positions also after a failure.
THEOREM ContextIsConversation == Spec => []OneConversation
<1>1. TextInv => OneConversation
  BY DEF TextInv, OneConversation
<1> QED BY PendingInit, PendingStep, TypeInit, TypeStep, TextInit, TextStep, <1>1, PTL DEF Spec
=============================================================================
