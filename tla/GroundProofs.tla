------------------------------ MODULE GroundProofs ------------------------------
(***************************************************************************)
(* Theorems about GroundStation, for any number of pages and channels.     *)
(***************************************************************************)
EXTENDS GroundStation, FiniteSetTheorems, TLAPS

Message == [kind : {"manifestLine", "data", "values", "data_status"},
            channels : SUBSET Index]

TypeOK ==
  /\ manifest \in SUBSET Index
  /\ next_line \in 0..Channels /\ round \in Nat /\ links \in Nat
  /\ connected \in [Pages -> BOOLEAN]
  /\ joins \in [Pages -> Nat]
  /\ skipped \in [Pages -> SUBSET Index]
  /\ inbox \in [Pages -> Seq(Message)]
  /\ hooks \in [Pages -> [Index -> Nat]]
  /\ data_sign \in [Pages -> {"none", "green", "red"}]

(* The lines come in order, from the first: what is known has no holes,    *)
(* and the next line is known or the first that is not.                    *)
Known(n) == manifest = 0..(n - 1) /\ next_line <= n

NoHoles == \E n \in 0..Channels : Known(n)

IInv == TypeOK /\ NoHoles /\ NoHoleThrows

-----------------------------------------------------------------------------
(* manifest.length is the number of channels known. *)
LEMMA LengthKnown ==
  ASSUME NEW n \in Nat, manifest = 0..(n - 1)
  PROVE  ManifestLength = n
<1>1. CASE n = 0
  <2>1. manifest = {}
    BY <1>1
  <2> QED
    BY <2>1, <1>1 DEF ManifestLength
<1>2. CASE n # 0
  <2>1. n - 1 \in manifest /\ \A d \in manifest : d <= n - 1
    BY <1>2
  <2>2. \A c \in manifest : (\A d \in manifest : d <= c) => c = n - 1
    BY <2>1
  <2>3. (CHOOSE c \in manifest : \A d \in manifest : d <= c) = n - 1
    BY <2>1, <2>2
  <2>4. manifest # {}
    BY <2>1
  <2>5. ManifestLength = 1 + (n - 1)
    BY <2>3, <2>4 DEF ManifestLength
  <2> QED
    BY <2>5
<1> QED
  BY <1>1, <1>2

(* A message sent to every page keeps the inboxes' type. *)
LEMMA EmitType ==
  ASSUME NEW message \in Message, inbox \in [Pages -> Seq(Message)], Emit(message)
  PROVE  inbox' \in [Pages -> Seq(Message)]
BY DEF Emit

(* What comes of a chunk: nothing, or a message of channels that are known. *)
LEMMA ChunkEmits ==
  ASSUME manifest \in SUBSET Index, NEW cs, NEW short, handle_telemetry(cs, short)
  PROVE  \/ UNCHANGED inbox
         \/ \E message \in Message :
              /\ Emit(message) /\ message.kind \in {"data", "values"}
              /\ message.channels \subseteq manifest
<1>1. \/ UNCHANGED inbox
      \/ \E ds \in SUBSET manifest : Emit(Data(ds)) \/ Emit(Values(ds))
  BY DEF handle_telemetry, Dropped, PassedOn, Thrown
<1>2. ASSUME NEW ds \in SUBSET manifest
      PROVE  /\ Data(ds) \in Message /\ Values(ds) \in Message
             /\ Data(ds).kind = "data" /\ Values(ds).kind = "values"
             /\ Data(ds).channels = ds /\ Values(ds).channels = ds
  BY DEF Data, Values, Message
<1> QED
  BY <1>1, <1>2

LEMMA IInvInit == Init => IInv
<1> SUFFICES ASSUME Init PROVE IInv
  OBVIOUS
<1>1. Known(0)
  BY DEF Init, Known
<1>2. TypeOK
  BY GroundAssumption DEF Init, TypeOK, Index
<1> QED
  BY <1>1, <1>2, GroundAssumption DEF Init, IInv, NoHoles, NoHoleThrows

LEMMA IInvStep == IInv /\ [Next]_groundVars => IInv'
<1> SUFFICES ASSUME IInv, [Next]_groundVars PROVE IInv'
  OBVIOUS
<1> USE GroundAssumption
<1>a. Channels \in Nat \ {0} /\ TypeOK /\ NoHoles /\ NoHoleThrows
  BY DEF IInv
<1>1. ASSUME ManifestData PROVE IInv'
  <2>1. PICK n \in 0..Channels : Known(n)
    BY <1>a DEF NoHoles
  <2>2. next_line \in 0..(Channels - 1) /\ next_line' = next_line + 1
    BY <1>a, <1>1 DEF ManifestData, TypeOK
  <2>3. UNCHANGED <<server, round, links, page, shown>>
    BY <1>1 DEF ManifestData
  <2>4. CASE next_line \in manifest
    <3>1. UNCHANGED <<manifest, inbox>>
      BY <1>1, <2>4 DEF ManifestData, handle_manifest_line
    <3>2. next_line + 1 <= n
      BY <2>1, <2>2, <2>4 DEF Known
    <3>3. Known(n)'
      BY <2>1, <2>2, <3>1, <3>2 DEF Known
    <3> QED
      BY <1>a, <2>2, <2>3, <3>1, <3>3
      DEF IInv, TypeOK, NoHoles, NoHoleThrows, page, shown
  <2>5. CASE next_line \notin manifest
    <3>1. manifest' = manifest \union {next_line} /\ Emit(ManifestLine({next_line}))
      BY <1>1, <2>5 DEF ManifestData, handle_manifest_line
    <3>2. next_line = n
      BY <2>1, <2>2, <2>5 DEF Known
    <3>3. n + 1 \in 0..Channels /\ Known(n + 1)'
      BY <2>1, <2>2, <3>1, <3>2 DEF Known
    <3>4. ManifestLine({next_line}) \in Message
      BY <2>2 DEF ManifestLine, Message, Index
    <3>5. inbox' \in [Pages -> Seq(Message)]
      BY <3>1, <3>4, <1>a, EmitType DEF TypeOK
    <3>6. TypeOK'
      BY <1>a, <2>2, <2>3, <3>1, <3>5 DEF TypeOK, page, shown, Index
    <3> QED
      BY <1>a, <2>3, <3>3, <3>6 DEF IInv, NoHoles, NoHoleThrows
  <2> QED
    BY <2>4, <2>5
<1>2. ASSUME Retransmit PROVE IInv'
  <2>1. PICK n \in 0..Channels : Known(n)
    BY <1>a DEF NoHoles
  <2>2. Known(n)'
    BY <1>2, <2>1 DEF Retransmit, Known
  <2>3. TypeOK'
    BY <1>a, <1>2 DEF TypeOK, Retransmit, page, shown
  <2> QED
    BY <1>a, <1>2, <2>2, <2>3 DEF IInv, NoHoles, NoHoleThrows, Retransmit
<1>3. ASSUME DataConnection PROVE IInv'
  BY <1>a, <1>3
  DEF IInv, TypeOK, NoHoles, Known, NoHoleThrows, DataConnection, page, shown
<1>4. ASSUME NEW cs \in SUBSET (0..Channels), NEW short \in BOOLEAN,
             handle_telemetry(cs, short)
      PROVE  IInv'
  <2>1. PICK n \in 0..Channels : Known(n)
    BY <1>a DEF NoHoles
  <2>2. ManifestLength = n
    BY <2>1, LengthKnown DEF Known
  <2>3. OutOfRange(cs) \/ cs \subseteq manifest
    BY <2>1, <2>2 DEF OutOfRange, Known
  <2>4. server' # "no_channel" /\ links' \in Nat
    BY <1>4, <1>a, <2>3
    DEF handle_telemetry, Dropped, PassedOn, Thrown, NoHoleThrows, TypeOK
  <2>5. inbox' \in [Pages -> Seq(Message)]
    BY <1>4, <1>a, ChunkEmits, EmitType DEF TypeOK
  <2> QED
    BY <1>4, <1>a, <2>4, <2>5
    DEF handle_telemetry, IInv, TypeOK, NoHoles, Known, NoHoleThrows, page, shown
<1>5. ASSUME handle_connection_close PROVE IInv'
  <2>1. DataStatus0 \in Message
    BY DEF DataStatus0, Message
  <2>2. inbox' \in [Pages -> Seq(Message)]
    BY <1>5, <1>a, <2>1, EmitType DEF handle_connection_close, TypeOK
  <2>3. links' \in Nat
    BY <1>5, <1>a DEF handle_connection_close, TypeOK
  <2> QED
    BY <1>5, <1>a, <2>2, <2>3
    DEF handle_connection_close, IInv, TypeOK, NoHoles, Known, NoHoleThrows, page, shown
<1>6. ASSUME NEW p \in Pages, Connection(p) PROVE IInv'
  <2>1. ManifestLine(manifest) \in Message
    BY <1>a DEF ManifestLine, Message, TypeOK
  <2>a. <<ManifestLine(manifest)>> \in Seq(Message) /\ << >> \in Seq(Message)
    BY <2>1
  <2>b. manifest \in SUBSET Index /\ {} \in SUBSET Index
    BY <1>a DEF TypeOK
  <2>c. inbox \in [Pages -> Seq(Message)] /\ skipped \in [Pages -> SUBSET Index]
    BY <1>a DEF TypeOK
  <2>d. \/ /\ inbox' = [inbox EXCEPT ![p] = <<ManifestLine(manifest)>>]
           /\ skipped' = [skipped EXCEPT ![p] = {}]
        \/ /\ inbox' = [inbox EXCEPT ![p] = << >>]
           /\ skipped' = [skipped EXCEPT ![p] = manifest]
    BY <1>6 DEF Connection, Greeting
  <2>2. inbox' \in [Pages -> Seq(Message)] /\ skipped' \in [Pages -> SUBSET Index]
    BY <2>a, <2>b, <2>c, <2>d
  <2>3. connected' \in [Pages -> BOOLEAN] /\ joins' \in [Pages -> Nat]
    BY <1>6, <1>a DEF Connection, TypeOK
  <2> QED
    BY <1>6, <1>a, <2>2, <2>3
    DEF Connection, IInv, TypeOK, NoHoles, Known, NoHoleThrows, quadcopter, shown
<1>7. ASSUME NEW p \in Pages, Disconnect(p) PROVE IInv'
  <2>1. inbox' \in [Pages -> Seq(Message)] /\ connected' \in [Pages -> BOOLEAN]
    BY <1>7, <1>a DEF Disconnect, TypeOK
  <2> QED
    BY <1>7, <1>a, <2>1
    DEF Disconnect, IInv, TypeOK, NoHoles, Known, NoHoleThrows, quadcopter, shown
<1>8. ASSUME NEW p \in Pages, PageStep(p) PROVE IInv'
  <2>1. /\ inbox' = [inbox EXCEPT ![p] = Tail(@)] /\ inbox[p] # << >>
        /\ UNCHANGED <<manifest, server, quadcopter, page>>
    BY <1>8 DEF PageStep, manifest_handle, PageData, PageValues, PageStatus, Receives
  <2>2. inbox' \in [Pages -> Seq(Message)]
    BY <2>1, <1>a DEF TypeOK
  <2>a. hooks \in [Pages -> [Index -> Nat]] /\ data_sign \in [Pages -> {"none", "green", "red"}]
    BY <1>a DEF TypeOK
  <2>b. ASSUME manifest_handle(p)
        PROVE  hooks' \in [Pages -> [Index -> Nat]] /\ data_sign' \in [Pages -> {"none", "green", "red"}]
    <3> DEFINE more == [c \in Index |->
                 hooks[p][c] + IF c \in Head(inbox[p]).channels THEN 1 ELSE 0]
    <3>1. \A c \in Index : hooks[p][c] \in Nat
      BY <2>a
    <3>2. more \in [Index -> Nat]
      BY <3>1
    <3>3. hooks' = [hooks EXCEPT ![p] = more] /\ data_sign' = data_sign
      BY <2>b DEF manifest_handle
    <3> HIDE DEF more
    <3> QED
      BY <2>a, <3>2, <3>3
  <2>c. ASSUME PageData(p) \/ PageValues(p) \/ PageStatus(p)
        PROVE  hooks' \in [Pages -> [Index -> Nat]] /\ data_sign' \in [Pages -> {"none", "green", "red"}]
    BY <2>c, <2>a DEF PageData, PageValues, PageStatus, shown
  <2>3. hooks' \in [Pages -> [Index -> Nat]] /\ data_sign' \in [Pages -> {"none", "green", "red"}]
    BY <1>8, <2>b, <2>c, <2>a DEF PageStep
  <2> QED
    BY <1>a, <2>1, <2>2, <2>3
    DEF IInv, TypeOK, NoHoles, Known, NoHoleThrows, quadcopter, page
<1>9. CASE UNCHANGED groundVars
  BY <1>a, <1>9
  DEF groundVars, IInv, TypeOK, NoHoles, Known, NoHoleThrows, quadcopter, page, shown
<1> QED
  BY <1>1, <1>2, <1>3, <1>4, <1>5, <1>6, <1>7, <1>8, <1>9 DEF Next

LEMMA Inductive == Spec => []IInv
BY IInvInit, IInvStep, PTL DEF Spec

(* Where an index is in range there is a channel, whatever indices the     *)
(* chunks have and however they and the lines of the manifest come: the    *)
(* server ends of chunks that are too short, and of nothing else           *)
(* (handle_telemetry, handle_manifest_line).                               *)
THEOREM NoHoleThrowsAlways == Spec => []NoHoleThrows
<1>1. IInv => NoHoleThrows
  BY DEF IInv
<1> QED
  BY <1>1, Inductive, PTL
-----------------------------------------------------------------------------
(***************************************************************************)
(* What the pages know.  PagesKnow is inductive with the type invariant:   *)
(* a message goes to the end of every inbox, behind what tells the page of *)
(* the channels, and what a page handles it has learnt.                    *)
(***************************************************************************)
LEMMA EmitKeepsPagesKnow ==
  ASSUME NEW message \in Message, TypeOK, PagesKnow, Emit(message),
         UNCHANGED <<connected, skipped, hooks>>,
         \A c \in manifest' \ manifest :
           message.kind = "manifestLine" /\ c \in message.channels,
         message.kind \in {"data", "values"} => message.channels \subseteq manifest
  PROVE  PagesKnow'
<1> SUFFICES ASSUME NEW p \in Pages, connected[p]
             PROVE  /\ \A c \in manifest' \ skipped[p] : Told(p, c, Len(inbox[p]))'
                    /\ \A k \in DOMAIN inbox'[p] :
                         inbox'[p][k].kind \in {"data", "values"} =>
                           \A c \in inbox'[p][k].channels \ skipped[p] : Told(p, c, k)'
  BY DEF PagesKnow
<1> DEFINE n == Len(inbox[p])
<1>1. /\ inbox[p] \in Seq(Message) /\ n \in Nat
      /\ inbox'[p] = Append(inbox[p], message)
  BY DEF TypeOK, Emit
<1>2. /\ Len(inbox'[p]) = n + 1 /\ DOMAIN inbox'[p] = 1..(n + 1)
      /\ DOMAIN inbox[p] = 1..n
      /\ inbox'[p][n + 1] = message
      /\ \A j \in 1..n : inbox'[p][j] = inbox[p][j]
  BY <1>1
<1>3. /\ \A c \in manifest \ skipped[p] : Told(p, c, n)
      /\ \A k \in 1..n : inbox[p][k].kind \in {"data", "values"} =>
           \A c \in inbox[p][k].channels \ skipped[p] : Told(p, c, k)
  BY <1>2 DEF PagesKnow
<1> HIDE DEF n
<1>4. ASSUME NEW c, NEW k \in 0..n, NEW m \in k..(n + 1), Told(p, c, k)
      PROVE  (hooks[p][c])' > 0 \/ \E j \in 1..m :
               inbox'[p][j].kind = "manifestLine" /\ c \in inbox'[p][j].channels
  <2>1. CASE hooks[p][c] > 0
    BY <2>1
  <2>2. CASE \E j \in 1..k : inbox[p][j].kind = "manifestLine" /\ c \in inbox[p][j].channels
    <3>1. PICK j \in 1..k : inbox[p][j].kind = "manifestLine" /\ c \in inbox[p][j].channels
      BY <2>2
    <3>2. j \in 1..m /\ inbox'[p][j] = inbox[p][j]
      BY <1>1, <1>2
    <3> QED
      BY <3>1, <3>2
  <2> QED
    BY <1>4, <2>1, <2>2 DEF Told
<1>5. ASSUME NEW c \in manifest' \ skipped[p]
      PROVE  Told(p, c, Len(inbox[p]))'
  <2>1. CASE c \in manifest
    BY <1>1, <1>2, <1>3, <1>4, <2>1 DEF Told
  <2>2. CASE c \notin manifest
    <3>1. n + 1 \in 1..(n + 1) /\ inbox'[p][n + 1].kind = "manifestLine"
          /\ c \in inbox'[p][n + 1].channels
      BY <1>1, <1>2, <2>2
    <3> QED
      BY <1>2, <3>1 DEF Told
  <2> QED
    BY <2>1, <2>2
<1>6. ASSUME NEW k \in DOMAIN inbox'[p], inbox'[p][k].kind \in {"data", "values"},
             NEW c \in inbox'[p][k].channels \ skipped[p]
      PROVE  Told(p, c, k)'
  <2>1. CASE k = n + 1
    <3>1. c \in manifest
      BY <1>2, <1>6, <2>1
    <3>2. Told(p, c, n) /\ n \in 0..n /\ k \in n..(n + 1)
      BY <1>1, <1>3, <2>1, <3>1
    <3> QED
      BY <1>4, <3>2 DEF Told
  <2>2. CASE k # n + 1
    <3>1. k \in 1..n /\ inbox'[p][k] = inbox[p][k]
      BY <1>1, <1>2, <2>2
    <3>2. Told(p, c, k) /\ k \in 0..n /\ k \in k..(n + 1)
      BY <1>1, <1>3, <1>6, <3>1
    <3> QED
      BY <1>4, <3>2 DEF Told
  <2> QED
    BY <2>1, <2>2
<1> QED
  BY <1>5, <1>6

(* A page that handles a message has a hook for what the message told it. *)
LEMMA PageStepKeepsPagesKnow ==
  ASSUME NEW q \in Pages, TypeOK, PagesKnow, PageStep(q)
  PROVE  PagesKnow'
<1>1. /\ inbox' = [inbox EXCEPT ![q] = Tail(@)] /\ inbox[q] # << >>
      /\ UNCHANGED <<manifest, connected, skipped>>
  BY DEF PageStep, manifest_handle, PageData, PageValues, PageStatus, Receives, page
<1>2. \A p \in Pages : \A c : p # q => (hooks[p][c])' = hooks[p][c]
  BY DEF PageStep, manifest_handle, PageData, PageValues, PageStatus, TypeOK, shown
<1>3. ASSUME NEW c \in Index, hooks[q][c] > 0
      PROVE  (hooks[q][c])' > 0
  <2>1. hooks[q][c] \in Nat
    BY DEF TypeOK
  <2>2. CASE manifest_handle(q)
    <3>1. (hooks[q][c])' = hooks[q][c] + IF c \in Head(inbox[q]).channels THEN 1 ELSE 0
      BY <2>2 DEF manifest_handle, TypeOK
    <3> QED
      BY <1>3, <2>1, <3>1
  <2>3. CASE UNCHANGED hooks
    BY <1>3, <2>3
  <2> QED
    BY <2>2, <2>3 DEF PageStep, PageData, PageValues, PageStatus, shown
<1>4. ASSUME NEW c \in Index, Head(inbox[q]).kind = "manifestLine",
             c \in Head(inbox[q]).channels
      PROVE  (hooks[q][c])' > 0
  <2>1. hooks[q][c] \in Nat
    BY DEF TypeOK
  <2> QED
    BY <1>4, <2>1 DEF PageStep, manifest_handle, PageData, PageValues, PageStatus, Receives, TypeOK
<1> SUFFICES ASSUME NEW p \in Pages, connected[p]
             PROVE  /\ \A c \in manifest \ skipped[p] : Told(p, c, Len(inbox[p]))'
                    /\ \A k \in DOMAIN inbox'[p] :
                         inbox'[p][k].kind \in {"data", "values"} =>
                           \A c \in inbox'[p][k].channels \ skipped[p] : Told(p, c, k)'
  BY <1>1 DEF PagesKnow
<1>5. CASE p # q
  <2>1. inbox'[p] = inbox[p]
    BY <1>1, <1>5 DEF TypeOK
  <2> QED
    BY <1>2, <1>5, <2>1 DEF PagesKnow, Told
<1>6. CASE p = q
  <2> DEFINE n == Len(inbox[q])
  <2>1. /\ inbox[q] \in Seq(Message) /\ n \in Nat \ {0}
        /\ inbox'[q] = Tail(inbox[q])
    BY <1>1 DEF TypeOK
  <2>2. /\ Len(inbox'[q]) = n - 1 /\ DOMAIN inbox'[q] = 1..(n - 1)
        /\ DOMAIN inbox[q] = 1..n
        /\ inbox[q][1] = Head(inbox[q])
        /\ \A j \in 1..(n - 1) : inbox'[q][j] = inbox[q][j + 1]
    BY <2>1
  <2>3. /\ \A c \in manifest \ skipped[q] : Told(q, c, n)
        /\ \A k \in 1..n : inbox[q][k].kind \in {"data", "values"} =>
             \A c \in inbox[q][k].channels \ skipped[q] : Told(q, c, k)
    BY <1>6, <2>2 DEF PagesKnow
  <2> HIDE DEF n
  <2>4. ASSUME NEW c \in Index, NEW k \in 0..(n - 1), Told(q, c, k + 1)
        PROVE  (hooks[q][c])' > 0 \/ \E j \in 1..k :
                 inbox'[q][j].kind = "manifestLine" /\ c \in inbox'[q][j].channels
    <3>1. CASE hooks[q][c] > 0
      BY <1>3, <3>1
    <3>2. CASE \E j \in 1..(k + 1) :
                 inbox[q][j].kind = "manifestLine" /\ c \in inbox[q][j].channels
      <4>1. PICK j \in 1..(k + 1) :
              inbox[q][j].kind = "manifestLine" /\ c \in inbox[q][j].channels
        BY <3>2
      <4>2. CASE j = 1
        BY <1>4, <2>2, <4>1, <4>2
      <4>3. CASE j # 1
        <5>1. j - 1 \in 1..k /\ j - 1 \in 1..(n - 1) /\ (j - 1) + 1 = j
          BY <2>1, <4>3
        <5>2. inbox'[q][j - 1] = inbox[q][j]
          BY <2>2, <5>1
        <5> QED
          BY <4>1, <5>1, <5>2
      <4> QED
        BY <4>2, <4>3
    <3> QED
      BY <2>4, <3>1, <3>2 DEF Told
  <2>5. ASSUME NEW c \in manifest \ skipped[q]
        PROVE  Told(q, c, Len(inbox[q]))'
    <3>1. c \in Index /\ n - 1 \in 0..(n - 1) /\ (n - 1) + 1 = n
      BY <2>1 DEF TypeOK
    <3> QED
      BY <2>2, <2>3, <2>4, <3>1 DEF Told
  <2>6. ASSUME NEW k \in DOMAIN inbox'[q], inbox'[q][k].kind \in {"data", "values"},
               NEW c \in inbox'[q][k].channels \ skipped[q]
        PROVE  Told(q, c, k)'
    <3>1. /\ k \in 1..(n - 1) /\ k \in 0..(n - 1) /\ k + 1 \in 1..n
          /\ inbox'[q][k] = inbox[q][k + 1]
      BY <2>1, <2>2
    <3>2. inbox[q][k + 1] \in Message
      BY <2>1, <2>2, <3>1
    <3>3. c \in Index
      BY <3>1, <3>2 DEF Message
    <3>4. Told(q, c, k + 1)
      BY <2>3, <2>6, <3>1
    <3> QED
      BY <2>4, <3>1, <3>3, <3>4 DEF Told
  <2> QED
    BY <1>6, <2>5, <2>6
<1> QED
  BY <1>5, <1>6

LEMMA PagesKnowStep ==
  ASSUME TypeOK, PagesKnow, [Next]_groundVars
  PROVE  PagesKnow'
<1> USE GroundAssumption
<1>1. ASSUME ManifestData PROVE PagesKnow'
  <2>1. UNCHANGED <<connected, skipped, hooks>> /\ next_line \in Index
    BY <1>1 DEF ManifestData, page, shown, TypeOK, Index
  <2>2. CASE next_line \in manifest
    BY <1>1, <2>1, <2>2 DEF ManifestData, handle_manifest_line, PagesKnow, Told
  <2>3. CASE next_line \notin manifest
    <3>1. manifest' = manifest \union {next_line} /\ Emit(ManifestLine({next_line}))
      BY <1>1, <2>3 DEF ManifestData, handle_manifest_line
    <3>2. /\ ManifestLine({next_line}) \in Message
          /\ ManifestLine({next_line}).kind = "manifestLine"
          /\ ManifestLine({next_line}).channels = {next_line}
      BY <2>1 DEF ManifestLine, Message
    <3> QED
      BY <2>1, <3>1, <3>2, EmitKeepsPagesKnow
  <2> QED
    BY <2>2, <2>3
<1>2. ASSUME Retransmit \/ DataConnection PROVE PagesKnow'
  BY <1>2 DEF Retransmit, DataConnection, page, shown, PagesKnow, Told
<1>3. ASSUME NEW cs, NEW short, handle_telemetry(cs, short) PROVE PagesKnow'
  <2>1. UNCHANGED <<manifest, connected, skipped, hooks>>
    BY <1>3 DEF handle_telemetry, page, shown
  <2>2. ASSUME NEW message \in Message, Emit(message),
               message.kind \in {"data", "values"}, message.channels \subseteq manifest
        PROVE  PagesKnow'
    BY <2>1, <2>2, EmitKeepsPagesKnow
  <2>3. CASE UNCHANGED inbox
    BY <2>1, <2>3 DEF PagesKnow, Told
  <2> QED
    BY <1>3, <2>2, <2>3, ChunkEmits DEF TypeOK
<1>4. ASSUME handle_connection_close PROVE PagesKnow'
  <2>1. UNCHANGED <<manifest, connected, skipped, hooks>> /\ Emit(DataStatus0)
    BY <1>4 DEF handle_connection_close, page, shown
  <2>2. DataStatus0 \in Message /\ DataStatus0.kind = "data_status"
    BY DEF DataStatus0, Message
  <2> QED
    BY <2>1, <2>2, EmitKeepsPagesKnow
<1>5. ASSUME NEW q \in Pages, Connection(q) PROVE PagesKnow'
  <2>1. UNCHANGED <<manifest, hooks>>
    BY <1>5 DEF Connection, shown
  <2>2. ASSUME NEW p \in Pages, p # q, connected'[p]
        PROVE  connected[p] /\ inbox'[p] = inbox[p] /\ skipped'[p] = skipped[p]
    BY <1>5, <2>2 DEF Connection, Greeting, TypeOK
  <2>3. CASE ManifestLength > 1
    <3>1. inbox'[q] = <<ManifestLine(manifest)>>
      BY <1>5, <2>3 DEF Connection, Greeting, TypeOK
    <3>2. Len(inbox'[q]) = 1 /\ DOMAIN inbox'[q] = {1} /\ 1 \in 1..1
          /\ inbox'[q][1].kind = "manifestLine" /\ inbox'[q][1].channels = manifest
      BY <3>1 DEF ManifestLine
    <3>3. \A c \in manifest : Told(q, c, Len(inbox[q]))'
      BY <3>2 DEF Told
    <3>4. \A k \in DOMAIN inbox'[q] : inbox'[q][k].kind \notin {"data", "values"}
      BY <3>2
    <3> QED
      BY <2>1, <2>2, <3>3, <3>4 DEF PagesKnow, Told
  <2>4. CASE ~(ManifestLength > 1)
    <3>1. inbox'[q] = << >> /\ skipped'[q] = manifest
      BY <1>5, <2>4 DEF Connection, Greeting, TypeOK
    <3>2. DOMAIN inbox'[q] = {}
      BY <3>1
    <3> QED
      BY <2>1, <2>2, <3>1, <3>2 DEF PagesKnow, Told
  <2> QED
    BY <2>3, <2>4
<1>6. ASSUME NEW q \in Pages, Disconnect(q) PROVE PagesKnow'
  <2>1. UNCHANGED <<manifest, hooks, skipped>>
    BY <1>6 DEF Disconnect, shown
  <2>2. ASSUME NEW p \in Pages, connected'[p]
        PROVE  connected[p] /\ inbox'[p] = inbox[p]
    BY <1>6, <2>2 DEF Disconnect, TypeOK
  <2> QED
    BY <2>1, <2>2 DEF PagesKnow, Told
<1>7. ASSUME NEW q \in Pages, PageStep(q) PROVE PagesKnow'
  BY <1>7, PageStepKeepsPagesKnow
<1>8. CASE UNCHANGED groundVars
  BY <1>8 DEF groundVars, page, shown, PagesKnow, Told
<1> QED
  BY <1>1, <1>2, <1>3, <1>4, <1>5, <1>6, <1>7, <1>8 DEF Next

(* A connected page is told of every channel, and before it gets data of   *)
(* it, whatever the pages, the manifest and the packets do.                *)
THEOREM PagesKnowAlways == Spec => []PagesKnow
<1>1. Init => PagesKnow
  BY DEF Init, PagesKnow
<1>2. IInv /\ PagesKnow /\ [Next]_groundVars => PagesKnow'
  BY PagesKnowStep DEF IInv
<1> QED
  BY <1>1, <1>2, Inductive, PTL DEF Spec

-----------------------------------------------------------------------------
(***************************************************************************)
(* The hooks.  A channel the server does not know is hooked, or about to   *)
(* be, once less than a connected page has connected: there is room for    *)
(* the line that will make it known.                                       *)
(***************************************************************************)
Tells(message, c) == message.kind = "manifestLine" /\ c \in message.channels
TellingAt(s, c) == {j \in 1..Len(s) : Tells(s[j], c)}

(* What is still to come to a page before all that may hook c has come. *)
Expected(p, c) == IF connected[p] /\ c \notin manifest THEN 1 ELSE 0

HooksLeft ==
  \A p \in Pages, c \in Index : hooks[p][c] + Telling(p, c) + Expected(p, c) <= joins[p]

LEMMA TellingFinite ==
  ASSUME NEW s \in Seq(Message), NEW c
  PROVE  /\ IsFiniteSet(TellingAt(s, c))
         /\ Cardinality(TellingAt(s, c)) \in Nat
<1>1. IsFiniteSet(1..Len(s))
  BY FS_Interval
<1>2. TellingAt(s, c) \in SUBSET (1..Len(s))
  BY DEF TellingAt
<1>3. IsFiniteSet(TellingAt(s, c))
  BY <1>1, <1>2, FS_Subset
<1> QED
  BY <1>3, FS_CardinalityType

LEMMA TellingIs ==
  ASSUME TypeOK, NEW p \in Pages, NEW c
  PROVE  /\ Telling(p, c) = Cardinality(TellingAt(inbox[p], c))
         /\ Telling(p, c) \in Nat
<1>1. inbox[p] \in Seq(Message)
  BY DEF TypeOK
<1>2. DOMAIN inbox[p] = 1..Len(inbox[p])
  BY <1>1
<1>3. Telling(p, c) = Cardinality(TellingAt(inbox[p], c))
  BY <1>2 DEF Telling, TellingAt, Tells
<1> QED
  BY <1>1, <1>3, TellingFinite

LEMMA TellingIsNext ==
  ASSUME TypeOK', NEW p \in Pages, NEW c
  PROVE  /\ Telling(p, c)' = Cardinality(TellingAt(inbox'[p], c))
         /\ Telling(p, c)' \in Nat
<1>1. inbox'[p] \in Seq(Message)
  BY DEF TypeOK
<1>2. DOMAIN inbox'[p] = 1..Len(inbox'[p])
  BY <1>1
<1>3. Telling(p, c)' = Cardinality(TellingAt(inbox'[p], c))
  BY <1>2 DEF Telling, TellingAt, Tells
<1> QED
  BY <1>1, <1>3, TellingFinite

(* A message at the end of an inbox. *)
LEMMA TellingAppend ==
  ASSUME NEW s \in Seq(Message), NEW message \in Message, NEW c
  PROVE  Cardinality(TellingAt(Append(s, message), c))
           = Cardinality(TellingAt(s, c)) + (IF Tells(message, c) THEN 1 ELSE 0)
<1> DEFINE n == Len(s)
           t == Append(s, message)
<1>1. /\ n \in Nat /\ Len(t) = n + 1 /\ t[n + 1] = message
      /\ \A j \in 1..n : t[j] = s[j]
  OBVIOUS
<1> HIDE DEF t
<1>2. TellingAt(t, c) = IF Tells(message, c) THEN TellingAt(s, c) \union {n + 1}
                        ELSE TellingAt(s, c)
  <2>1. \A j \in 1..(n + 1) : j \in 1..n \/ j = n + 1
    BY <1>1
  <2>2. n + 1 \in 1..(n + 1) /\ \A j \in 1..n : j \in 1..(n + 1)
    BY <1>1
  <2> QED
    BY <1>1, <2>1, <2>2 DEF TellingAt
<1>3. n + 1 \notin TellingAt(s, c)
  BY <1>1 DEF TellingAt
<1>4. IsFiniteSet(TellingAt(s, c)) /\ Cardinality(TellingAt(s, c)) \in Nat
  BY TellingFinite
<1>5. Cardinality(TellingAt(s, c) \union {n + 1}) = Cardinality(TellingAt(s, c)) + 1
  BY <1>3, <1>4, FS_AddElement
<1> QED
  BY <1>2, <1>4, <1>5 DEF t

(* A message taken from the front of an inbox. *)
LEMMA TellingTail ==
  ASSUME NEW s \in Seq(Message), s # << >>, NEW c
  PROVE  Cardinality(TellingAt(s, c))
           = Cardinality(TellingAt(Tail(s), c)) + (IF Tells(Head(s), c) THEN 1 ELSE 0)
<1> DEFINE t == Tail(s)
           S == TellingAt(t, c)
           T == TellingAt(s, c) \ {1}
           f == [i \in S |-> i + 1]
<1>1. /\ Len(s) \in Nat \ {0} /\ t \in Seq(Message) /\ Len(t) = Len(s) - 1
      /\ Head(s) = s[1]
      /\ \A i \in 1..Len(t) : t[i] = s[i + 1]
  OBVIOUS
<1> HIDE DEF t
<1>2. \A i \in S : i \in Nat
  BY DEF TellingAt
<1>3. f \in Bijection(S, T)
  <2>1. \A i \in S : i + 1 \in T
    <3> SUFFICES ASSUME NEW i \in S PROVE i + 1 \in T
      OBVIOUS
    <3>1. i \in 1..Len(t) /\ Tells(t[i], c)
      BY DEF TellingAt
    <3>2. i + 1 \in 1..Len(s) /\ i + 1 # 1 /\ t[i] = s[i + 1]
      BY <1>1, <3>1
    <3> QED
      BY <3>1, <3>2 DEF TellingAt
  <2>2. \A j \in T : \E i \in S : f[i] = j
    <3> SUFFICES ASSUME NEW j \in T PROVE \E i \in S : f[i] = j
      OBVIOUS
    <3>1. j \in 1..Len(s) /\ j # 1 /\ Tells(s[j], c)
      BY DEF TellingAt
    <3>2. j - 1 \in 1..Len(t) /\ (j - 1) + 1 = j
      BY <1>1, <3>1
    <3>3. t[j - 1] = s[j]
      BY <1>1, <3>2
    <3>4. j - 1 \in S
      BY <3>1, <3>2, <3>3 DEF TellingAt
    <3> QED
      BY <3>2, <3>4
  <2>3. \A i, k \in S : f[i] = f[k] => i = k
    BY <1>2
  <2> HIDE DEF S, T
  <2>4. f \in [S -> T] /\ \A i \in S : f[i] = i + 1
    BY <2>1
  <2> QED
    BY <2>2, <2>3, <2>4 DEF Bijection, Injection, Surjection, IsInjective
<1>4. IsFiniteSet(S) /\ Cardinality(S) \in Nat
  BY <1>1, TellingFinite
<1>5. IsFiniteSet(TellingAt(s, c)) /\ Cardinality(TellingAt(s, c)) \in Nat
  BY TellingFinite
<1>6. Cardinality(T) = Cardinality(S)
  BY <1>3, <1>4, FS_Bijection DEF ExistsBijection
<1>7. Cardinality(T) = IF 1 \in TellingAt(s, c) THEN Cardinality(TellingAt(s, c)) - 1
                       ELSE Cardinality(TellingAt(s, c))
  BY <1>5, FS_RemoveElement
<1>8. 1 \in TellingAt(s, c) <=> Tells(Head(s), c)
  BY <1>1 DEF TellingAt
<1> QED
  BY <1>4, <1>5, <1>6, <1>7, <1>8 DEF t

(* A message to every page leaves room, if it tells only of channels that  *)
(* become known with it.                                                   *)
LEMMA EmitLeavesHooks ==
  ASSUME NEW message \in Message, TypeOK, TypeOK', HooksLeft, Emit(message),
         UNCHANGED <<connected, hooks, joins>>, manifest \subseteq manifest',
         \A c : Tells(message, c) => c \in manifest' \ manifest
  PROVE  HooksLeft'
<1> SUFFICES ASSUME NEW p \in Pages, NEW c \in Index
             PROVE  (hooks[p][c] + Telling(p, c) + Expected(p, c) <= joins[p])'
  BY DEF HooksLeft
<1>1. /\ hooks[p][c] \in Nat /\ joins[p] \in Nat /\ inbox[p] \in Seq(Message)
      /\ Telling(p, c) = Cardinality(TellingAt(inbox[p], c)) /\ Telling(p, c) \in Nat
      /\ hooks[p][c] + Telling(p, c) + Expected(p, c) <= joins[p]
  BY TellingIs DEF TypeOK, HooksLeft
<1>2. Telling(p, c)' = Cardinality(TellingAt(inbox'[p], c)) /\ Telling(p, c)' \in Nat
  BY TellingIsNext
<1>3. CASE ~connected[p]
  <2>1. inbox'[p] = inbox[p]
    BY <1>3 DEF Emit
  <2>2. Expected(p, c) = 0 /\ Expected(p, c)' = 0
    BY <1>3 DEF Expected
  <2> QED
    BY <1>1, <1>2, <2>1, <2>2
<1>4. CASE connected[p]
  <2>1. inbox'[p] = Append(inbox[p], message)
    BY <1>4 DEF Emit
  <2>2. Telling(p, c)' = Telling(p, c) + (IF Tells(message, c) THEN 1 ELSE 0)
    BY <1>1, <1>2, <2>1, TellingAppend
  <2>3. /\ Expected(p, c) = IF c \notin manifest THEN 1 ELSE 0
        /\ Expected(p, c)' = IF c \notin manifest' THEN 1 ELSE 0
    BY <1>4 DEF Expected
  <2>4. CASE Tells(message, c)
    <3>1. Expected(p, c) = 1 /\ Expected(p, c)' = 0
      BY <2>3, <2>4
    <3>2. Telling(p, c)' = Telling(p, c) + 1
      BY <2>2, <2>4
    <3> QED
      BY <1>1, <3>1, <3>2
  <2>5. CASE ~Tells(message, c)
    <3>1. Telling(p, c)' = Telling(p, c)
      BY <1>1, <2>2, <2>5
    <3>2. \/ Expected(p, c)' = Expected(p, c)
          \/ Expected(p, c) = 1 /\ Expected(p, c)' = 0
      BY <2>3
    <3>3. Expected(p, c) \in {0, 1}
      BY DEF Expected
    <3> QED
      BY <1>1, <3>1, <3>2, <3>3
  <2> QED
    BY <2>4, <2>5
<1> QED
  BY <1>3, <1>4

(* A message a page handles is one less on its way, and one hook more for  *)
(* each channel it tells of.                                               *)
LEMMA PageStepLeavesHooks ==
  ASSUME NEW q \in Pages, TypeOK, TypeOK', HooksLeft, PageStep(q)
  PROVE  HooksLeft'
<1>1. /\ inbox' = [inbox EXCEPT ![q] = Tail(@)] /\ inbox[q] # << >>
      /\ UNCHANGED <<manifest, connected, joins>>
  BY DEF PageStep, manifest_handle, PageData, PageValues, PageStatus, Receives, page
<1> SUFFICES ASSUME NEW p \in Pages, NEW c \in Index
             PROVE  (hooks[p][c] + Telling(p, c) + Expected(p, c) <= joins[p])'
  BY DEF HooksLeft
<1>2. /\ hooks[p][c] \in Nat /\ joins[p] \in Nat /\ inbox[p] \in Seq(Message)
      /\ Telling(p, c) = Cardinality(TellingAt(inbox[p], c)) /\ Telling(p, c) \in Nat
      /\ hooks[p][c] + Telling(p, c) + Expected(p, c) <= joins[p]
      /\ Expected(p, c) \in {0, 1}
  BY TellingIs DEF TypeOK, HooksLeft, Expected
<1>3. Telling(p, c)' = Cardinality(TellingAt(inbox'[p], c)) /\ Telling(p, c)' \in Nat
  BY TellingIsNext
<1>4. Expected(p, c)' = Expected(p, c) /\ joins'[p] = joins[p]
  BY <1>1 DEF Expected
<1>5. CASE p # q
  <2>1. inbox'[p] = inbox[p] /\ hooks'[p] = hooks[p]
    BY <1>1, <1>5 DEF PageStep, manifest_handle, PageData, PageValues, PageStatus, TypeOK, shown
  <2> QED
    BY <1>2, <1>3, <1>4, <2>1
<1>6. CASE p = q
  <2>1. inbox'[p] = Tail(inbox[p]) /\ inbox[p] # << >>
    BY <1>1, <1>6 DEF TypeOK
  <2>2. Telling(p, c) = Telling(p, c)' + (IF Tells(Head(inbox[p]), c) THEN 1 ELSE 0)
    BY <1>2, <1>3, <2>1, TellingTail
  <2>3. CASE manifest_handle(q)
    <3>1. Tells(Head(inbox[p]), c) <=> c \in Head(inbox[p]).channels
      BY <1>6, <2>3 DEF manifest_handle, Receives, Tells
    <3>2. hooks'[p][c] = hooks[p][c] + IF c \in Head(inbox[p]).channels THEN 1 ELSE 0
      BY <1>6, <2>3 DEF manifest_handle, TypeOK
    <3> QED
      BY <1>2, <1>3, <1>4, <2>2, <3>1, <3>2
  <2>4. CASE PageData(q) \/ PageValues(q) \/ PageStatus(q)
    <3>1. ~Tells(Head(inbox[p]), c) /\ hooks'[p][c] = hooks[p][c]
      BY <1>6, <2>4 DEF PageData, PageValues, PageStatus, Receives, Tells, shown
    <3> QED
      BY <1>2, <1>3, <1>4, <2>2, <3>1
  <2> QED
    BY <2>3, <2>4 DEF PageStep
<1> QED
  BY <1>5, <1>6

(* A page that connects may be told of each channel once more: of a        *)
(* channel known, now, and of any other when it becomes known.             *)
LEMMA ConnectionLeavesHooks ==
  ASSUME NEW q \in Pages, TypeOK, TypeOK', HooksLeft, Connection(q)
  PROVE  HooksLeft'
<1>1. /\ joins' = [joins EXCEPT ![q] = @ + 1]
      /\ connected' = [connected EXCEPT ![q] = TRUE]
      /\ UNCHANGED <<manifest, hooks>>
  BY DEF Connection, shown
<1>2. \/ inbox' = [inbox EXCEPT ![q] = <<ManifestLine(manifest)>>]
      \/ inbox' = [inbox EXCEPT ![q] = << >>]
  BY DEF Connection, Greeting
<1> SUFFICES ASSUME NEW p \in Pages, NEW c \in Index
             PROVE  (hooks[p][c] + Telling(p, c) + Expected(p, c) <= joins[p])'
  BY DEF HooksLeft
<1>3. /\ hooks[p][c] \in Nat /\ joins[p] \in Nat
      /\ Telling(p, c) = Cardinality(TellingAt(inbox[p], c)) /\ Telling(p, c) \in Nat
      /\ hooks[p][c] + Telling(p, c) + Expected(p, c) <= joins[p]
      /\ Expected(p, c) \in {0, 1}
  BY TellingIs DEF TypeOK, HooksLeft, Expected
<1>4. Telling(p, c)' = Cardinality(TellingAt(inbox'[p], c)) /\ Telling(p, c)' \in Nat
  BY TellingIsNext
<1>5. CASE p # q
  <2>1. /\ inbox'[p] = inbox[p] /\ hooks'[p] = hooks[p] /\ joins'[p] = joins[p]
        /\ connected'[p] = connected[p]
    BY <1>1, <1>2, <1>5 DEF TypeOK
  <2>2. Expected(p, c)' = Expected(p, c)
    BY <1>1, <2>1 DEF Expected
  <2> QED
    BY <1>3, <1>4, <2>1, <2>2
<1>6. CASE p = q
  <2>1. joins'[p] = joins[p] + 1 /\ hooks'[p][c] = hooks[p][c] /\ connected'[p]
    BY <1>1, <1>6 DEF TypeOK
  <2>2. CASE inbox' = [inbox EXCEPT ![q] = << >>]
    <3>1. inbox'[p] = << >>
      BY <1>6, <2>2 DEF TypeOK
    <3>2. TellingAt(inbox'[p], c) = {}
      BY <3>1 DEF TellingAt
    <3>3. Telling(p, c)' = 0
      BY <1>4, <3>2, FS_EmptySet
    <3>4. Expected(p, c)' \in {0, 1}
      BY DEF Expected
    <3> QED
      BY <1>3, <2>1, <3>3, <3>4
  <2>3. CASE inbox' = [inbox EXCEPT ![q] = <<ManifestLine(manifest)>>]
    <3>1. inbox'[p] = <<ManifestLine(manifest)>>
      BY <1>6, <2>3 DEF TypeOK
    <3>2. /\ Len(inbox'[p]) = 1 /\ inbox'[p][1].kind = "manifestLine"
          /\ inbox'[p][1].channels = manifest
      BY <3>1 DEF ManifestLine
    <3>3. TellingAt(inbox'[p], c) = IF c \in manifest THEN {1} ELSE {}
      BY <3>2 DEF TellingAt, Tells
    <3>4. Cardinality({1}) = 1 /\ Cardinality({}) = 0
      BY FS_Singleton, FS_EmptySet
    <3>5. Telling(p, c)' = IF c \in manifest THEN 1 ELSE 0
      BY <1>4, <3>3, <3>4
    <3>6. Expected(p, c)' = IF c \in manifest THEN 0 ELSE 1
      BY <1>1, <2>1 DEF Expected
    <3> QED
      BY <1>3, <2>1, <3>5, <3>6
  <2> QED
    BY <1>2, <2>2, <2>3
<1> QED
  BY <1>5, <1>6

LEMMA DisconnectLeavesHooks ==
  ASSUME NEW q \in Pages, TypeOK, TypeOK', HooksLeft, Disconnect(q)
  PROVE  HooksLeft'
<1>1. /\ connected' = [connected EXCEPT ![q] = FALSE]
      /\ inbox' = [inbox EXCEPT ![q] = << >>]
      /\ UNCHANGED <<manifest, hooks, joins>>
  BY DEF Disconnect, shown
<1> SUFFICES ASSUME NEW p \in Pages, NEW c \in Index
             PROVE  (hooks[p][c] + Telling(p, c) + Expected(p, c) <= joins[p])'
  BY DEF HooksLeft
<1>2. /\ hooks[p][c] \in Nat /\ joins[p] \in Nat
      /\ Telling(p, c) = Cardinality(TellingAt(inbox[p], c)) /\ Telling(p, c) \in Nat
      /\ hooks[p][c] + Telling(p, c) + Expected(p, c) <= joins[p]
      /\ Expected(p, c) \in {0, 1}
  BY TellingIs DEF TypeOK, HooksLeft, Expected
<1>3. Telling(p, c)' = Cardinality(TellingAt(inbox'[p], c)) /\ Telling(p, c)' \in Nat
  BY TellingIsNext
<1>4. CASE p # q
  <2>1. inbox'[p] = inbox[p] /\ connected'[p] = connected[p]
    BY <1>1, <1>4 DEF TypeOK
  <2>2. Expected(p, c)' = Expected(p, c)
    BY <1>1, <2>1 DEF Expected
  <2> QED
    BY <1>1, <1>2, <1>3, <2>1, <2>2
<1>5. CASE p = q
  <2>1. inbox'[p] = << >> /\ ~connected'[p]
    BY <1>1, <1>5 DEF TypeOK
  <2>2. TellingAt(inbox'[p], c) = {}
    BY <2>1 DEF TellingAt
  <2>3. Telling(p, c)' = 0 /\ Expected(p, c)' = 0
    BY <1>3, <2>1, <2>2, FS_EmptySet DEF Expected
  <2> QED
    BY <1>1, <1>2, <2>3
<1> QED
  BY <1>4, <1>5

LEMMA HooksLeftStep ==
  ASSUME TypeOK, TypeOK', HooksLeft, [Next]_groundVars
  PROVE  HooksLeft'
<1>1. ASSUME ManifestData PROVE HooksLeft'
  <2>1. UNCHANGED <<connected, hooks, joins>> /\ next_line \in Index
    BY <1>1, GroundAssumption DEF ManifestData, page, shown, TypeOK, Index
  <2>2. CASE next_line \in manifest
    BY <1>1, <2>1, <2>2
    DEF ManifestData, handle_manifest_line, HooksLeft, Telling, Expected
  <2>3. CASE next_line \notin manifest
    <3>1. manifest' = manifest \union {next_line} /\ Emit(ManifestLine({next_line}))
      BY <1>1, <2>3 DEF ManifestData, handle_manifest_line
    <3>2. ManifestLine({next_line}) \in Message
      BY <2>1 DEF ManifestLine, Message
    <3>3. \A c : Tells(ManifestLine({next_line}), c) => c \in manifest' \ manifest
      BY <2>3, <3>1 DEF Tells, ManifestLine
    <3> QED
      BY <2>1, <3>1, <3>2, <3>3, EmitLeavesHooks
  <2> QED
    BY <2>2, <2>3
<1>2. ASSUME Retransmit \/ DataConnection PROVE HooksLeft'
  BY <1>2
  DEF Retransmit, DataConnection, page, shown, HooksLeft, Telling, Expected
<1>3. ASSUME NEW cs, NEW short, handle_telemetry(cs, short) PROVE HooksLeft'
  <2>1. UNCHANGED <<manifest, connected, hooks, joins>>
    BY <1>3 DEF handle_telemetry, page, shown
  <2>2. ASSUME NEW message \in Message, Emit(message), message.kind \in {"data", "values"}
        PROVE  HooksLeft'
    <3>1. \A c : ~Tells(message, c)
      BY <2>2 DEF Tells
    <3> QED
      BY <2>1, <2>2, <3>1, EmitLeavesHooks
  <2>3. CASE UNCHANGED inbox
    BY <2>1, <2>3 DEF HooksLeft, Telling, Expected
  <2> QED
    BY <1>3, <2>2, <2>3, ChunkEmits DEF TypeOK
<1>4. ASSUME handle_connection_close PROVE HooksLeft'
  <2>1. UNCHANGED <<manifest, connected, hooks, joins>> /\ Emit(DataStatus0)
    BY <1>4 DEF handle_connection_close, page, shown
  <2>2. DataStatus0 \in Message /\ \A c : ~Tells(DataStatus0, c)
    BY DEF DataStatus0, Message, Tells
  <2> QED
    BY <2>1, <2>2, EmitLeavesHooks
<1>5. CASE UNCHANGED groundVars
  BY <1>5 DEF groundVars, page, shown, HooksLeft, Telling, Expected
<1> QED
  BY <1>1, <1>2, <1>3, <1>4, <1>5,
     ConnectionLeavesHooks, DisconnectLeavesHooks, PageStepLeavesHooks DEF Next

(* A page's plot of a channel is hooked at most once for each time the     *)
(* page has connected, however often the manifest is sent and the page     *)
(* loses its connection (handle_manifest_line, Greeting).                  *)
THEOREM HookedOnceAlways == Spec => []HookedOnce
<1>1. ASSUME Init PROVE HooksLeft
  <2> SUFFICES ASSUME NEW p \in Pages, NEW c \in Index
               PROVE  hooks[p][c] + Telling(p, c) + Expected(p, c) <= joins[p]
    BY DEF HooksLeft
  <2>1. /\ hooks[p][c] = 0 /\ joins[p] = 0 /\ inbox[p] = << >> /\ ~connected[p]
        /\ TypeOK
    BY <1>1, IInvInit DEF Init, IInv
  <2>2. TellingAt(inbox[p], c) = {}
    BY <2>1 DEF TellingAt
  <2>3. Telling(p, c) = 0 /\ Expected(p, c) = 0
    BY <2>1, <2>2, TellingIs, FS_EmptySet DEF Expected
  <2> QED
    BY <2>1, <2>3
<1>2. IInv /\ HooksLeft /\ [Next]_groundVars => HooksLeft'
  BY IInvStep, HooksLeftStep DEF IInv
<1>3. ASSUME IInv, HooksLeft PROVE HookedOnce
  <2> SUFFICES ASSUME NEW p \in Pages, NEW c \in Index
               PROVE  hooks[p][c] + Telling(p, c) <= joins[p]
    BY DEF HookedOnce
  <2>1. /\ hooks[p][c] \in Nat /\ joins[p] \in Nat /\ Telling(p, c) \in Nat
        /\ Expected(p, c) \in {0, 1}
        /\ hooks[p][c] + Telling(p, c) + Expected(p, c) <= joins[p]
    BY <1>3, TellingIs DEF IInv, TypeOK, HooksLeft, Expected
  <2> QED
    BY <2>1
<1> QED
  BY <1>1, <1>2, <1>3, Inductive, PTL DEF Spec
=============================================================================
