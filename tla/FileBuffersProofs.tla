------------------------- MODULE FileBuffersProofs -------------------------
(***************************************************************************)
(* What FileBuffers promises where tool calls come one after another, as   *)
(* the task executor makes them, while others write the file at any time.  *)
(* The invariant says, for each place of a call, what the thread holds     *)
(* there: no buffer, or one with its contexts for references; that what a  *)
(* lookup has read is what the file had during the call, and what an edit  *)
(* has read is all that must not be lost; and, as long as nobody else      *)
(* wrote since didOpen, that the server's document is the buffer's.        *)
(***************************************************************************)
EXTENDS FileBuffers, FiniteSetTheorems, SequenceTheorems, TLAPS

USE FileConstants DEF vars, callVars, cacheVars, history

Steps == {"peek", "register", "cached", "didOpen", "rawCached", "ask", "store", "bodies", "close",
          "open", "delete", "insert", "contents", "write", "rewrite", "save"}

-----------------------------------------------------------------------------
(* The places of a call that makes edit e: what is left of the lookup, and *)
(* what comes after it.                                                    *)
FromRegister == <<"register", "cached", "didOpen", "rawCached", "ask", "store", "bodies", "close">>
FromCached   == <<"cached", "didOpen", "rawCached", "ask", "store", "bodies", "close">>
FromDidOpen  == <<"didOpen", "rawCached", "ask", "store", "bodies", "close">>
FromRaw      == <<"rawCached", "ask", "store", "bodies", "close">>
FromAsk      == <<"ask", "store", "bodies", "close">>
FromStore    == <<"store", "bodies", "close">>
FromBodies   == <<"bodies", "close">>
FromClose    == <<"close">>

Replace1 == <<"open", "delete", "insert", "contents", "write", "rewrite", "close", "save">>
Replace2 == <<"delete", "insert", "contents", "write", "rewrite", "close", "save">>
Replace3 == <<"insert", "contents", "write", "rewrite", "close", "save">>
Rename1  == <<"open", "open", "delete", "insert", "close", "contents", "write", "rewrite",
              "close", "save">>
Rename2  == <<"open", "delete", "insert", "close", "contents", "write", "rewrite", "close", "save">>
Rename3  == <<"delete", "insert", "close", "contents", "write", "rewrite", "close", "save">>
Rename4  == <<"insert", "close", "contents", "write", "rewrite", "close", "save">>
Rename5  == <<"close", "contents", "write", "rewrite", "close", "save">>
Edited   == <<"contents", "write", "rewrite", "close", "save">>
Gotten   == <<"write", "rewrite", "close", "save">>
Cleared  == <<"rewrite", "close", "save">>
Written  == <<"close", "save">>
Finished == <<"save">>

AfterLookup(e) == IF e = None THEN {Finished} ELSE {Replace1, Rename1}

Looking(stage, e) == {stage \o rest : rest \in AfterLookup(e)}

Registering == {<<"register">> \o Replace2, <<"register">> \o Rename2}

Leaving(n) == [k \in 1 .. n |-> "close"]

-----------------------------------------------------------------------------
(* What a thread holds.                                                    *)
Typed(t) ==
    /\ disk \in Contents /\ doc \in Contents \cup {None}
    /\ buf \in [Bufs -> Buffers \cup {None}] /\ open \in Bufs \cup {None}
    /\ \A entry \in {raw, high, rawSaved, highSaved} : entry \in Entries \cup {None}
    /\ todo \in [Threads -> Seq(Steps)]
    /\ own \in [Threads -> Bufs \cup {None}] /\ edit \in [Threads -> Edits \cup {None}]
    /\ symbols \in [Threads -> Contents \cup {Empty, None}]
    /\ text \in [Threads -> Contents \cup {None}]
    /\ seen \in [Threads -> SUBSET Contents] /\ done \subseteq Writes \cup Edits /\ broken = {}

NoBuffer(t) ==
    open = None /\ doc = None /\ own[t] = None /\ \A b \in Bufs : buf[b] = None

(* One buffer, known to the server or not.                                 *)
Sole(t, n) ==
    /\ own[t] \in Bufs /\ buf[own[t]] \in Buffers /\ buf[own[t]].refs = n
    /\ \A b \in Bufs : b # own[t] => buf[b] = None
    /\ IF buf[own[t]].inLs
       THEN doc \in Contents /\ (t \notin disturbed => doc = buf[own[t]].contents)
       ELSE doc = None

Held(t, n) == Sole(t, n) /\ open = own[t]

(* What was read, and told the server, the file had during the call, and   *)
(* unless others wrote since, it still has.                                *)
Viewed(t) ==
    LET b == buf[own[t]] IN
    /\ b.contents \in seen[t] \cup {None} /\ b.hash \in {b.contents, None}
    /\ b.inLs => /\ b.contents # None /\ doc \in seen[t]
                 /\ t \notin disturbed => ~b.stale

Answered(t) ==
    /\ symbols[t] # None
    /\ t \notin disturbed => Sound(<<buf[own[t]].contents, symbols[t]>>)

(* Read for an edit, which has added something.                            *)
Carrying(t, added) ==
    LET b == buf[own[t]] IN
    /\ edit[t] \in Edits /\ b.inLs /\ b.contents \in Contents
    /\ Kept(b.contents, {edit[t]}) /\ (added \subseteq b.contents \/ edit[t] \in lost)
    /\ b.stale => edit[t] \in lost /\ t \in disturbed

Carries(t, n, added) == Held(t, n) /\ Carrying(t, added)

(* What is going to be written.                                            *)
Composed(t) ==
    /\ edit[t] \in Edits /\ text[t] \in Contents /\ Kept(text[t], {edit[t]})
    /\ Halves(edit[t]) \subseteq text[t] \/ edit[t] \in lost

Landed(t) == Halves(edit[t]) \subseteq disk \/ edit[t] \in lost

-----------------------------------------------------------------------------
(* The places.                                                             *)
AtLookup(t) ==
    LET at(stage) == todo[t] \in Looking(stage, edit[t])
        known == buf[own[t]].inLs IN
    \/ at(Lookup) /\ NoBuffer(t)
    \/ at(FromRegister) /\ Sole(t, 1) /\ open = None /\ Viewed(t) /\ ~known
    \/ (at(FromCached) \/ at(FromDidOpen)) /\ Held(t, 1) /\ Viewed(t) /\ ~known
    \/ (at(FromRaw) \/ at(FromAsk)) /\ Held(t, 1) /\ Viewed(t) /\ known
    \/ (at(FromStore) \/ at(FromBodies)) /\ Held(t, 1) /\ Viewed(t) /\ known /\ Answered(t)
    \/ at(FromClose) /\ Held(t, 1)

AtEdit(t) ==
    \/ todo[t] \in {Replace1, Rename1} /\ NoBuffer(t) /\ edit[t] \in Edits
    \/ /\ todo[t] \in Registering /\ Sole(t, 1) /\ open = None /\ Carrying(t, {})
       /\ symbols[t] # Empty
    \/ todo[t] \in {Rename2, Replace2} /\ Carries(t, 1, {}) /\ symbols[t] # Empty
    \/ todo[t] = Rename3 /\ Carries(t, 2, {})
    \/ todo[t] = Replace3 /\ Carries(t, 1, {<<edit[t], "deletion">>})
    \/ todo[t] = Rename4 /\ Carries(t, 2, {<<edit[t], "deletion">>})
    \/ todo[t] = Rename5 /\ Carries(t, 2, Halves(edit[t]))
    \/ todo[t] = Edited /\ Carries(t, 1, Halves(edit[t]))
    \/ todo[t] = Gotten /\ Held(t, 1) /\ Composed(t)
    \/ todo[t] = Cleared /\ Held(t, 1) /\ Composed(t) /\ disk \subseteq {Cut} \cup Writes

AtEnd(t) ==
    \/ todo[t] = <<>> /\ NoBuffer(t)
    \/ \E n \in {1, 2} : todo[t] = Leaving(n) /\ Held(t, n)
    \/ todo[t] = Written /\ Held(t, 1) /\ edit[t] \in Edits /\ Landed(t)
    \/ todo[t] = Finished /\ NoBuffer(t) /\ (edit[t] # None => Landed(t))

(* During a call every contents of the file is remembered.                 *)
Observed(t) == todo[t] # <<>> => disk \in seen[t]

FilesInv(t) ==
    /\ Typed(t) /\ Observed(t)
    /\ AtLookup(t) \/ AtEdit(t) \/ AtEnd(t)
    /\ CacheSound /\ FreshSymbols /\ EditsLand

-----------------------------------------------------------------------------
(* Sequences.                                                              *)

(* A concatenation is taken from the front.                                *)
LEMMA TakenFromFront ==
  ASSUME NEW q \in Seq(Steps), q # <<>>, NEW r \in Seq(Steps)
  PROVE  /\ q \o r \in Seq(Steps) /\ q \o r # <<>>
         /\ Head(q \o r) = Head(q) /\ Tail(q \o r) = Tail(q) \o r
<1>1. Len(q) \in Nat /\ Len(q) # 0
  BY EmptySeq
<1>2. /\ q \o r \in Seq(Steps) /\ Len(q \o r) = Len(q) + Len(r)
      /\ \A i \in 1 .. Len(q) + Len(r) :
            (q \o r)[i] = IF i <= Len(q) THEN q[i] ELSE r[i - Len(q)]
  BY ConcatProperties
<1>3. q \o r # <<>> /\ Head(q \o r) = Head(q)
  BY <1>1, <1>2
<1>4. /\ Tail(q) \in Seq(Steps) /\ Len(Tail(q)) = Len(q) - 1
      /\ \A i \in 1 .. Len(q) - 1 : Tail(q)[i] = q[i + 1]
  OBVIOUS
<1>5. /\ Tail(q \o r) \in Seq(Steps) /\ Len(Tail(q \o r)) = Len(q) + Len(r) - 1
      /\ \A i \in 1 .. Len(q) + Len(r) - 1 : Tail(q \o r)[i] = (q \o r)[i + 1]
  BY <1>2, <1>3
<1>6. /\ Tail(q) \o r \in Seq(Steps) /\ Len(Tail(q) \o r) = Len(q) - 1 + Len(r)
      /\ \A i \in 1 .. Len(q) - 1 + Len(r) :
            (Tail(q) \o r)[i] = IF i <= Len(q) - 1 THEN Tail(q)[i] ELSE r[i - (Len(q) - 1)]
  BY <1>4, ConcatProperties
<1>7. \A i \in 1 .. Len(q) + Len(r) - 1 : (Tail(q) \o r)[i] = Tail(q \o r)[i]
  BY <1>1, <1>2, <1>4, <1>5, <1>6
<1>8. QED
  BY <1>1, <1>2, <1>3, <1>5, <1>6, <1>7, SeqEqual

(* The stages of a lookup follow each other.                               *)
LEMMA StagesFollow ==
  /\ Lookup \in Seq(Steps) /\ Lookup # <<>> /\ Head(Lookup) = "peek" /\ Tail(Lookup) = FromCached
  /\ FromRegister \in Seq(Steps) /\ FromRegister # <<>> /\ Head(FromRegister) = "register"
  /\ Tail(FromRegister) = FromCached
  /\ FromCached \in Seq(Steps) /\ FromCached # <<>> /\ Head(FromCached) = "cached"
  /\ Tail(FromCached) = FromDidOpen
  /\ FromDidOpen \in Seq(Steps) /\ FromDidOpen # <<>> /\ Head(FromDidOpen) = "didOpen"
  /\ Tail(FromDidOpen) = FromRaw
  /\ FromRaw \in Seq(Steps) /\ FromRaw # <<>> /\ Head(FromRaw) = "rawCached"
  /\ Tail(FromRaw) = FromAsk
  /\ FromAsk \in Seq(Steps) /\ FromAsk # <<>> /\ Head(FromAsk) = "ask"
  /\ Tail(FromAsk) = FromStore
  /\ FromStore \in Seq(Steps) /\ FromStore # <<>> /\ Head(FromStore) = "store"
  /\ Tail(FromStore) = FromBodies
  /\ FromBodies \in Seq(Steps) /\ FromBodies # <<>> /\ Head(FromBodies) = "bodies"
  /\ Tail(FromBodies) = FromClose
  /\ FromClose \in Seq(Steps) /\ FromClose # <<>> /\ Head(FromClose) = "close"
  /\ Tail(FromClose) = <<>>
<1> USE DEF Steps
<1>1. Lookup \in Seq(Steps) /\ Lookup # <<>> /\ Head(Lookup) = "peek" /\ Tail(Lookup) = FromCached
  BY DEF Lookup, FromCached
<1>2. /\ FromRegister \in Seq(Steps) /\ FromRegister # <<>> /\ Head(FromRegister) = "register"
      /\ Tail(FromRegister) = FromCached
  BY DEF FromRegister, FromCached
<1>3. /\ FromCached \in Seq(Steps) /\ FromCached # <<>> /\ Head(FromCached) = "cached"
      /\ Tail(FromCached) = FromDidOpen
  BY DEF FromCached, FromDidOpen
<1>4. /\ FromDidOpen \in Seq(Steps) /\ FromDidOpen # <<>> /\ Head(FromDidOpen) = "didOpen"
      /\ Tail(FromDidOpen) = FromRaw
  BY DEF FromDidOpen, FromRaw
<1>5. /\ FromRaw \in Seq(Steps) /\ FromRaw # <<>> /\ Head(FromRaw) = "rawCached"
      /\ Tail(FromRaw) = FromAsk
  BY DEF FromRaw, FromAsk
<1>6. /\ FromAsk \in Seq(Steps) /\ FromAsk # <<>> /\ Head(FromAsk) = "ask"
      /\ Tail(FromAsk) = FromStore
  BY DEF FromAsk, FromStore
<1>7. /\ FromStore \in Seq(Steps) /\ FromStore # <<>> /\ Head(FromStore) = "store"
      /\ Tail(FromStore) = FromBodies
  BY DEF FromStore, FromBodies
<1>8. /\ FromBodies \in Seq(Steps) /\ FromBodies # <<>> /\ Head(FromBodies) = "bodies"
      /\ Tail(FromBodies) = FromClose
  BY DEF FromBodies, FromClose
<1>9. /\ FromClose \in Seq(Steps) /\ FromClose # <<>> /\ Head(FromClose) = "close"
      /\ Tail(FromClose) = <<>>
  BY DEF FromClose
<1>10. QED
  BY <1>1, <1>2, <1>3, <1>4, <1>5, <1>6, <1>7, <1>8, <1>9

(* So do the stages of an edit.                                            *)
LEMMA EditsFollow ==
  /\ Replace1 # <<>> /\ Head(Replace1) = "open" /\ Tail(Replace1) = Replace2
  /\ Rename1 # <<>> /\ Head(Rename1) = "open" /\ Tail(Rename1) = Rename2
  /\ Replace2 # <<>> /\ Head(Replace2) = "delete" /\ Tail(Replace2) = Replace3
  /\ Replace3 # <<>> /\ Head(Replace3) = "insert" /\ Tail(Replace3) = Edited
  /\ Rename2 # <<>> /\ Head(Rename2) = "open" /\ Tail(Rename2) = Rename3
  /\ Rename3 # <<>> /\ Head(Rename3) = "delete" /\ Tail(Rename3) = Rename4
  /\ Rename4 # <<>> /\ Head(Rename4) = "insert" /\ Tail(Rename4) = Rename5
  /\ Rename5 # <<>> /\ Head(Rename5) = "close" /\ Tail(Rename5) = Edited
  /\ Edited # <<>> /\ Head(Edited) = "contents" /\ Tail(Edited) = Gotten
  /\ Gotten # <<>> /\ Head(Gotten) = "write" /\ Tail(Gotten) = Cleared
  /\ Cleared # <<>> /\ Head(Cleared) = "rewrite" /\ Tail(Cleared) = Written
  /\ Written # <<>> /\ Head(Written) = "close" /\ Tail(Written) = Finished
  /\ Finished # <<>> /\ Head(Finished) = "save" /\ Tail(Finished) = <<>>
<1>1. /\ Replace1 # <<>> /\ Head(Replace1) = "open" /\ Tail(Replace1) = Replace2
      /\ Replace2 # <<>> /\ Head(Replace2) = "delete" /\ Tail(Replace2) = Replace3
      /\ Replace3 # <<>> /\ Head(Replace3) = "insert" /\ Tail(Replace3) = Edited
  BY DEF Replace1, Replace2, Replace3, Edited
<1>2. /\ Rename1 # <<>> /\ Head(Rename1) = "open" /\ Tail(Rename1) = Rename2
      /\ Rename2 # <<>> /\ Head(Rename2) = "open" /\ Tail(Rename2) = Rename3
      /\ Rename3 # <<>> /\ Head(Rename3) = "delete" /\ Tail(Rename3) = Rename4
  BY DEF Rename1, Rename2, Rename3, Rename4
<1>3. /\ Rename4 # <<>> /\ Head(Rename4) = "insert" /\ Tail(Rename4) = Rename5
      /\ Rename5 # <<>> /\ Head(Rename5) = "close" /\ Tail(Rename5) = Edited
  BY DEF Rename4, Rename5, Edited
<1>4. /\ Edited # <<>> /\ Head(Edited) = "contents" /\ Tail(Edited) = Gotten
      /\ Gotten # <<>> /\ Head(Gotten) = "write" /\ Tail(Gotten) = Cleared
  BY DEF Edited, Gotten, Cleared
<1>5. /\ Cleared # <<>> /\ Head(Cleared) = "rewrite" /\ Tail(Cleared) = Written
      /\ Written # <<>> /\ Head(Written) = "close" /\ Tail(Written) = Finished
      /\ Finished # <<>> /\ Head(Finished) = "save" /\ Tail(Finished) = <<>>
  BY DEF Cleared, Written, Finished
<1>6. QED
  BY <1>1, <1>2, <1>3, <1>4, <1>5

(* What is left to do of an edit is a sequence of steps.                   *)
LEMMA EditTypes ==
  /\ {Replace1, Replace2, Replace3, Rename1, Rename2, Rename3, Rename4, Rename5, Edited,
      Gotten, Cleared, Written, Finished, <<>>} \subseteq Seq(Steps)
  /\ Registering \subseteq Seq(Steps)
<1> USE DEF Steps
<1>1. Replace1 \in Seq(Steps) /\ Replace2 \in Seq(Steps) /\ Replace3 \in Seq(Steps)
  BY DEF Replace1, Replace2, Replace3
<1>2. Rename1 \in Seq(Steps) /\ Rename2 \in Seq(Steps) /\ Rename3 \in Seq(Steps)
  BY DEF Rename1, Rename2, Rename3
<1>3. Rename4 \in Seq(Steps) /\ Rename5 \in Seq(Steps)
  BY DEF Rename4, Rename5
<1>4. Edited \in Seq(Steps) /\ Gotten \in Seq(Steps) /\ Cleared \in Seq(Steps)
      /\ Written \in Seq(Steps) /\ Finished \in Seq(Steps)
  BY DEF Edited, Gotten, Cleared, Written, Finished
<1>5. <<"register">> \in Seq(Steps) /\ <<>> \in Seq(Steps)
  OBVIOUS
<1>6. Registering \subseteq Seq(Steps)
  BY <1>1, <1>2, <1>5, ConcatProperties DEF Registering
<1>7. QED
  BY <1>1, <1>2, <1>3, <1>4, <1>5, <1>6

(* A lookup begins with the first step of its stage, and goes on with the  *)
(* rest.                                                                   *)
LEMMA LookingOn ==
  ASSUME NEW stage \in Seq(Steps), stage # <<>>, NEW e, NEW q \in Looking(stage, e)
  PROVE  /\ q \in Seq(Steps) /\ q # <<>> /\ Head(q) = Head(stage)
         /\ Tail(q) \in Looking(Tail(stage), e)
<1>1. PICK rest \in AfterLookup(e) : q = stage \o rest
  BY DEF Looking
<1>2. rest \in Seq(Steps)
  BY EditTypes DEF AfterLookup
<1>3. QED
  BY <1>1, <1>2, TakenFromFront DEF Looking

(* Where a call at a stage of its lookup is, and where it goes on.         *)
LEMMA LookupFollows ==
  ASSUME NEW e
  PROVE
  /\ \A q \in Looking(Lookup, e) :
        /\ q \in Seq(Steps) /\ q # <<>> /\ Head(q) = "peek"
        /\ <<"register">> \o Tail(q) \in Looking(FromRegister, e)
  /\ \A q \in Looking(FromRegister, e) :
        q \in Seq(Steps) /\ q # <<>> /\ Head(q) = "register" /\ Tail(q) \in Looking(FromCached, e)
  /\ \A q \in Looking(FromCached, e) :
        q \in Seq(Steps) /\ q # <<>> /\ Head(q) = "cached" /\ Tail(q) \in Looking(FromDidOpen, e)
  /\ \A q \in Looking(FromDidOpen, e) :
        q \in Seq(Steps) /\ q # <<>> /\ Head(q) = "didOpen" /\ Tail(q) \in Looking(FromRaw, e)
  /\ \A q \in Looking(FromRaw, e) :
        q \in Seq(Steps) /\ q # <<>> /\ Head(q) = "rawCached" /\ Tail(q) \in Looking(FromAsk, e)
  /\ \A q \in Looking(FromAsk, e) :
        q \in Seq(Steps) /\ q # <<>> /\ Head(q) = "ask" /\ Tail(q) \in Looking(FromStore, e)
  /\ \A q \in Looking(FromStore, e) :
        q \in Seq(Steps) /\ q # <<>> /\ Head(q) = "store" /\ Tail(q) \in Looking(FromBodies, e)
  /\ \A q \in Looking(FromBodies, e) :
        q \in Seq(Steps) /\ q # <<>> /\ Head(q) = "bodies" /\ Tail(q) \in Looking(FromClose, e)
  /\ \A q \in Looking(FromClose, e) :
        q \in Seq(Steps) /\ q # <<>> /\ Head(q) = "close" /\ Tail(q) \in AfterLookup(e)
<1>1. ASSUME NEW q \in Looking(Lookup, e)
      PROVE  <<"register">> \o Tail(q) \in Looking(FromRegister, e)
  <2>1. PICK rest \in AfterLookup(e) : q = Lookup \o rest
    BY DEF Looking
  <2>2. rest \in Seq(Steps) /\ <<"register">> \in Seq(Steps)
    BY EditTypes DEF AfterLookup, Steps
  <2> HIDE DEF Lookup, FromCached
  <2>s. /\ Lookup \in Seq(Steps) /\ Lookup # <<>> /\ Tail(Lookup) = FromCached
        /\ FromCached \in Seq(Steps)
    BY StagesFollow
  <2>3. Tail(q) = FromCached \o rest
    <3>1. Tail(Lookup \o rest) = Tail(Lookup) \o rest
      BY <2>2, <2>s, TakenFromFront
    <3>2. QED
      BY <3>1, <2>1, <2>s
  <2>4. <<"register">> \o (FromCached \o rest) = (<<"register">> \o FromCached) \o rest
    BY <2>2, <2>s, ConcatAssociative
  <2>5. <<"register">> \o FromCached = FromRegister
    <3>1. /\ <<"register">> \o FromCached \in Seq(Steps) /\ FromRegister \in Seq(Steps)
          /\ Len(<<"register">>) = 1 /\ Len(FromCached) = 7 /\ Len(FromRegister) = 8
      BY <2>2, StagesFollow, ConcatProperties DEF FromCached, FromRegister
    <3>2. /\ Len(<<"register">> \o FromCached) = 8
          /\ \A i \in 1 .. 8 : (<<"register">> \o FromCached)[i] =
                IF i <= 1 THEN <<"register">>[i] ELSE FromCached[i - 1]
      <4> DEFINE r == <<"register">>
      <4>1. r \in Seq(Steps) /\ Len(r) = 1 /\ FromCached \in Seq(Steps) /\ Len(FromCached) = 7
        BY <2>2, <3>1, <2>s
      <4> HIDE DEF r
      <4>2. /\ Len(r \o FromCached) = 8
            /\ \A i \in 1 .. 8 : (r \o FromCached)[i] =
                  IF i <= 1 THEN r[i] ELSE FromCached[i - 1]
        <5>1. /\ Len(r \o FromCached) = Len(r) + Len(FromCached)
              /\ \A i \in 1 .. Len(r) + Len(FromCached) : (r \o FromCached)[i] =
                    IF i <= Len(r) THEN r[i] ELSE FromCached[i - Len(r)]
          BY <4>1, ConcatProperties
        <5>2. Len(r) + Len(FromCached) = 8
          BY <4>1
        <5>3. QED
          BY <5>1, <5>2, <4>1
      <4>3. QED
        BY <4>2 DEF r
    <3>3. \A i \in 1 .. 7 : FromCached[i] = FromRegister[i + 1]
      BY DEF FromCached, FromRegister
    <3>4. FromRegister[1] = "register"
      BY DEF FromRegister
    <3>5. \A i \in 1 .. 8 : (<<"register">> \o FromCached)[i] = FromRegister[i]
      BY <3>2, <3>3, <3>4
    <3>6. QED
      BY <3>1, <3>2, <3>5, SeqEqual
  <2>6. QED
    BY <2>3, <2>4, <2>5 DEF Looking
<1>2. ASSUME NEW q \in Looking(FromClose, e)
      PROVE  Tail(q) \in AfterLookup(e)
  <2>0. FromClose \in Seq(Steps) /\ FromClose # <<>> /\ Tail(FromClose) = <<>>
    BY StagesFollow
  <2>01. Tail(q) \in Looking(Tail(FromClose), e)
    BY <1>2, <2>0, LookingOn
  <2>1. PICK rest \in AfterLookup(e) : Tail(q) = <<>> \o rest
    BY <2>0, <2>01 DEF Looking
  <2>2. rest \in Seq(Steps)
    BY EditTypes DEF AfterLookup
  <2>3. QED
    BY <2>1, <2>2, ConcatEmptySeq
<1>3. \A q \in Looking(Lookup, e) :
         /\ q \in Seq(Steps) /\ q # <<>> /\ Head(q) = "peek"
         /\ Tail(q) \in Looking(FromCached, e)
  <2>1. /\ Lookup \in Seq(Steps) /\ Lookup # <<>>
        /\ Head(Lookup) = "peek" /\ Tail(Lookup) = FromCached
    BY StagesFollow
  <2>2. QED
    BY <2>1, LookingOn
<1>4. \A q \in Looking(FromRegister, e) :
         /\ q \in Seq(Steps) /\ q # <<>> /\ Head(q) = "register"
         /\ Tail(q) \in Looking(FromCached, e)
  <2>1. /\ FromRegister \in Seq(Steps) /\ FromRegister # <<>>
        /\ Head(FromRegister) = "register" /\ Tail(FromRegister) = FromCached
    BY StagesFollow
  <2>2. QED
    BY <2>1, LookingOn
<1>5. \A q \in Looking(FromCached, e) :
         /\ q \in Seq(Steps) /\ q # <<>> /\ Head(q) = "cached"
         /\ Tail(q) \in Looking(FromDidOpen, e)
  <2>1. /\ FromCached \in Seq(Steps) /\ FromCached # <<>>
        /\ Head(FromCached) = "cached" /\ Tail(FromCached) = FromDidOpen
    BY StagesFollow
  <2>2. QED
    BY <2>1, LookingOn
<1>6. \A q \in Looking(FromDidOpen, e) :
         /\ q \in Seq(Steps) /\ q # <<>> /\ Head(q) = "didOpen"
         /\ Tail(q) \in Looking(FromRaw, e)
  <2>1. /\ FromDidOpen \in Seq(Steps) /\ FromDidOpen # <<>>
        /\ Head(FromDidOpen) = "didOpen" /\ Tail(FromDidOpen) = FromRaw
    BY StagesFollow
  <2>2. QED
    BY <2>1, LookingOn
<1>7. \A q \in Looking(FromRaw, e) :
         /\ q \in Seq(Steps) /\ q # <<>> /\ Head(q) = "rawCached"
         /\ Tail(q) \in Looking(FromAsk, e)
  <2>1. /\ FromRaw \in Seq(Steps) /\ FromRaw # <<>>
        /\ Head(FromRaw) = "rawCached" /\ Tail(FromRaw) = FromAsk
    BY StagesFollow
  <2>2. QED
    BY <2>1, LookingOn
<1>8. \A q \in Looking(FromAsk, e) :
         /\ q \in Seq(Steps) /\ q # <<>> /\ Head(q) = "ask"
         /\ Tail(q) \in Looking(FromStore, e)
  <2>1. /\ FromAsk \in Seq(Steps) /\ FromAsk # <<>>
        /\ Head(FromAsk) = "ask" /\ Tail(FromAsk) = FromStore
    BY StagesFollow
  <2>2. QED
    BY <2>1, LookingOn
<1>9. \A q \in Looking(FromStore, e) :
         /\ q \in Seq(Steps) /\ q # <<>> /\ Head(q) = "store"
         /\ Tail(q) \in Looking(FromBodies, e)
  <2>1. /\ FromStore \in Seq(Steps) /\ FromStore # <<>>
        /\ Head(FromStore) = "store" /\ Tail(FromStore) = FromBodies
    BY StagesFollow
  <2>2. QED
    BY <2>1, LookingOn
<1>10. \A q \in Looking(FromBodies, e) :
         /\ q \in Seq(Steps) /\ q # <<>> /\ Head(q) = "bodies"
         /\ Tail(q) \in Looking(FromClose, e)
  <2>1. /\ FromBodies \in Seq(Steps) /\ FromBodies # <<>>
        /\ Head(FromBodies) = "bodies" /\ Tail(FromBodies) = FromClose
    BY StagesFollow
  <2>2. QED
    BY <2>1, LookingOn
<1>11. \A q \in Looking(FromClose, e) :
         q \in Seq(Steps) /\ q # <<>> /\ Head(q) = "close"
  <2>1. FromClose \in Seq(Steps) /\ FromClose # <<>> /\ Head(FromClose) = "close"
    BY StagesFollow
  <2>2. QED
    BY <2>1, LookingOn
<1>12. QED
  BY <1>1, <1>2, <1>3, <1>4, <1>5, <1>6, <1>7, <1>8, <1>9, <1>10, <1>11

(* Skipping to the end of the lookup.                                      *)
LEMMA LookupSkipped ==
  ASSUME NEW stage \in {FromCached, FromAsk}, NEW e, NEW q \in Looking(stage, e)
  PROVE  LET n == CHOOSE i \in 1 .. Len(q) : q[i] = "close" /\ \A k \in 1 .. i - 1 : q[k] # "close"
         IN  SubSeq(q, n, Len(q)) \in Looking(FromClose, e)
<1> DEFINE m == Len(stage)
           First(i) == q[i] = "close" /\ \A k \in 1 .. i - 1 : q[k] # "close"
           n == CHOOSE i \in 1 .. Len(q) : First(i)
<1>1. PICK rest \in AfterLookup(e) : q = stage \o rest
  BY DEF Looking
<1>2. rest \in Seq(Steps) /\ stage \in Seq(Steps) /\ FromClose \in Seq(Steps)
  BY EditTypes, StagesFollow DEF AfterLookup
<1>3. /\ m \in {4, 7} /\ stage[m] = "close" /\ \A k \in 1 .. m - 1 : stage[k] # "close"
  <2>1. CASE stage = FromCached
    BY <2>1 DEF FromCached
  <2>2. CASE stage = FromAsk
    BY <2>2 DEF FromAsk
  <2>3. QED
    BY <2>1, <2>2
<1> HIDE DEF m
<1>4. /\ q \in Seq(Steps) /\ Len(rest) \in Nat /\ Len(q) = m + Len(rest)
      /\ \A i \in 1 .. m + Len(rest) : q[i] = IF i <= m THEN stage[i] ELSE rest[i - m]
  BY <1>1, <1>2, ConcatProperties DEF m
<1>5. m \in 1 .. Len(q) /\ First(m)
  BY <1>3, <1>4
<1>6. \A i \in 1 .. Len(q) : First(i) => i = m
  BY <1>3, <1>4
<1>7. n = m
  BY <1>5, <1>6
<1>8. SubSeq(q, m, Len(q)) = FromClose \o rest
  <2>1. /\ SubSeq(q, m, Len(q)) \in Seq(Steps) /\ Len(SubSeq(q, m, Len(q))) = Len(rest) + 1
        /\ \A i \in 1 .. Len(rest) + 1 : SubSeq(q, m, Len(q))[i] = q[m + i - 1]
    BY <1>3, <1>4, SubSeqProperties
  <2>2. Len(FromClose) = 1 /\ FromClose[1] = "close"
    BY DEF FromClose
  <2>3. /\ FromClose \o rest \in Seq(Steps) /\ Len(FromClose \o rest) = Len(rest) + 1
        /\ \A i \in 1 .. Len(rest) + 1 : (FromClose \o rest)[i] =
              IF i <= 1 THEN FromClose[i] ELSE rest[i - 1]
    <3>1. /\ FromClose \o rest \in Seq(Steps)
          /\ Len(FromClose \o rest) = Len(FromClose) + Len(rest)
          /\ \A i \in 1 .. Len(FromClose) + Len(rest) : (FromClose \o rest)[i] =
                IF i <= Len(FromClose) THEN FromClose[i] ELSE rest[i - Len(FromClose)]
      BY <1>2, ConcatProperties
    <3>2. Len(FromClose) + Len(rest) = Len(rest) + 1
      BY <1>4, <2>2
    <3>3. QED
      BY <3>1, <3>2, <2>2
  <2>4. \A i \in 1 .. Len(rest) + 1 : SubSeq(q, m, Len(q))[i] = (FromClose \o rest)[i]
    BY <1>3, <1>4, <2>1, <2>2, <2>3
  <2>5. QED
    BY <2>1, <2>3, <2>4, SeqEqual
<1>9. QED
  BY <1>7, <1>8 DEF Looking

(* Where an exception leads to.                                            *)
LEMMA LeavingFollows ==
  /\ \A n \in {1, 2} : Leaving(n) \in Seq(Steps) /\ Leaving(n) # <<>> /\ Head(Leaving(n)) = "close"
  /\ Tail(Leaving(2)) = Leaving(1) /\ Tail(Leaving(1)) = <<>> /\ <<"close">> = Leaving(1)
<1>1. \A n \in {1, 2} : Leaving(n) \in Seq(Steps) /\ Len(Leaving(n)) = n
                       /\ \A k \in 1 .. n : Leaving(n)[k] = "close"
  BY DEF Leaving, Steps
<1>2. \A n \in {1, 2} : Leaving(n) # <<>> /\ Head(Leaving(n)) = "close"
  BY <1>1
<1>3. Tail(Leaving(2)) = Leaving(1) /\ Tail(Leaving(1)) = <<>>
  <2>1. /\ Tail(Leaving(2)) \in Seq(Steps) /\ Len(Tail(Leaving(2))) = 1
        /\ Tail(Leaving(2))[1] = "close"
    BY <1>1, <1>2
  <2>2. Tail(Leaving(1)) \in Seq(Steps) /\ Len(Tail(Leaving(1))) = 0
    BY <1>1, <1>2
  <2>3. Tail(Leaving(2)) = Leaving(1)
    <3> DEFINE s == Tail(Leaving(2))
               r == Leaving(1)
    <3>1. /\ s \in Seq(Steps) /\ r \in Seq(Steps) /\ Len(s) = 1 /\ Len(r) = 1
          /\ s[1] = "close" /\ r[1] = "close"
      BY <1>1, <2>1
    <3> HIDE DEF s, r
    <3>2. s = r
      BY <3>1, SeqEqual
    <3>3. QED
      BY <3>2 DEF s, r
  <2>4. Tail(Leaving(1)) = <<>>
    BY <2>2, EmptySeq
  <2>5. QED
    BY <2>3, <2>4
<1>4. <<"close">> = Leaving(1)
  <2>1. <<"close">> \in Seq(Steps) /\ Len(<<"close">>) = 1 /\ <<"close">>[1] = "close"
    BY DEF Steps
  <2>2. QED
    BY <1>1, <2>1, SeqEqual
<1>5. QED
  BY <1>1, <1>2, <1>3, <1>4

(* An edit that is opening its buffer.                                     *)
LEMMA RegisteringFollows ==
  /\ <<"register">> \o Replace2 \in Registering /\ <<"register">> \o Rename2 \in Registering
  /\ \A q \in Registering : q # <<>> /\ Head(q) = "register" /\ Tail(q) \in {Replace2, Rename2}
<1>1. <<"register">> \in Seq(Steps) /\ <<"register">> # <<>> /\ Head(<<"register">>) = "register"
      /\ Tail(<<"register">>) = <<>>
  BY DEF Steps
<1>2. ASSUME NEW q \in {Replace2, Rename2}
      PROVE  LET r == <<"register">> \o q IN r # <<>> /\ Head(r) = "register" /\ Tail(r) = q
  <2>1. q \in Seq(Steps)
    BY EditTypes
  <2>2. /\ <<"register">> \o q # <<>> /\ Head(<<"register">> \o q) = "register"
        /\ Tail(<<"register">> \o q) = <<>> \o q
    BY <1>1, <2>1, TakenFromFront
  <2>3. QED
    BY <2>1, <2>2, ConcatEmptySeq
<1>3. QED
  BY <1>2 DEF Registering

(* The contexts an edit is in when its second change raises.               *)
LEMMA ContextsCounted ==
  ASSUME NEW t
  PROVE  /\ todo[t] = Replace3 => Cardinality(Contexts(t)) = 1
         /\ todo[t] = Rename4 => Cardinality(Contexts(t)) = 2
<1>1. ASSUME todo[t] = Replace3
      PROVE  Contexts(t) = {5}
  BY <1>1 DEF Contexts, Replace3
<1>2. ASSUME todo[t] = Rename4
      PROVE  Contexts(t) = {2, 6}
  BY <1>2 DEF Contexts, Rename4
<1>3. Cardinality({5}) = 1
  BY FS_Singleton
<1>4. Cardinality({2, 6}) = 2
  <2>1. ASSUME NEW x, NEW y, x # y
        PROVE  Cardinality({x} \cup {y}) = 2
    <3>1. IsFiniteSet({x}) /\ Cardinality({x}) = 1 /\ y \notin {x}
      BY <2>1, FS_Singleton
    <3>2. Cardinality({x} \cup {y}) = Cardinality({x}) + 1
      BY <3>1, FS_AddElement, ZenonT(30)
    <3>3. QED
      BY <3>1, <3>2
  <2>2. {2, 6} = {2} \cup {6} /\ 2 # 6
    OBVIOUS
  <2>3. Cardinality({2} \cup {6}) = 2
    BY <2>1, <2>2
  <2>4. QED
    BY <2>2, <2>3
<1>5. QED
  BY <1>1, <1>2, <1>3, <1>4

-----------------------------------------------------------------------------
(* Buffers and places.                                                     *)

(* Reading the properties of a buffer whose contents the file had.         *)
LEMMA Buffered ==
  ASSUME NEW S \in SUBSET Contents, disk \in S, NEW b \in Buffers,
         b.contents \in S \cup {None}, b.hash \in {b.contents, None}
  PROVE  /\ Read(b) \in Buffers /\ Read(b).refs = b.refs /\ Read(b).inLs = b.inLs
         /\ Read(b).contents \in S /\ Read(b).hash \in {Read(b).contents, None} /\ ~Read(b).stale
         /\ ~b.stale /\ b.contents # None => Read(b).contents = b.contents
         /\ Hashed(b) \in Buffers /\ Hashed(b).refs = b.refs /\ Hashed(b).inLs = b.inLs
         /\ Hashed(b).contents \in S /\ Hashed(b).hash = Hashed(b).contents
         /\ ~b.stale => ~Hashed(b).stale
         /\ ~b.stale /\ b.contents # None => Hashed(b).contents = b.contents
         /\ ~b.inLs => /\ Opened(b) \in Buffers /\ Opened(b).refs = b.refs /\ Opened(b).inLs
                       /\ Opened(b).contents \in S /\ ~Opened(b).stale
                       /\ Opened(b).hash \in {Opened(b).contents, None}
<1> USE DEF Buffers, Read
<1>1. \A c \in S : c \in Contents /\ c # None
  OBVIOUS
<1>2. /\ Read(b) \in Buffers /\ Read(b).refs = b.refs /\ Read(b).inLs = b.inLs
      /\ Read(b).contents \in S /\ Read(b).hash \in {Read(b).contents, None} /\ ~Read(b).stale
      /\ ~b.stale /\ b.contents # None => Read(b).contents = b.contents
  BY <1>1
<1>3. /\ Hashed(b) \in Buffers /\ Hashed(b).refs = b.refs /\ Hashed(b).inLs = b.inLs
      /\ Hashed(b).contents \in S /\ Hashed(b).hash = Hashed(b).contents
      /\ ~b.stale => ~Hashed(b).stale
      /\ ~b.stale /\ b.contents # None => Hashed(b).contents = b.contents
  BY <1>1, <1>2 DEF Hashed
<1>4. ~b.inLs => /\ Opened(b) \in Buffers /\ Opened(b).refs = b.refs /\ Opened(b).inLs
                 /\ Opened(b).contents \in S /\ ~Opened(b).stale
                 /\ Opened(b).hash \in {Opened(b).contents, None}
  BY <1>1, <1>2 DEF Opened
<1>5. QED
  BY <1>2, <1>3, <1>4

(* Where a thread is that is at a step.                                    *)
LEMMA Located ==
  ASSUME NEW t, FilesInv(t)
  PROVE
  LET at(stage) == todo[t] \in Looking(stage, edit[t])
      known == buf[own[t]].inLs IN
  /\ todo[t] = <<>> => NoBuffer(t)
  /\ At(t, "peek") => at(Lookup) /\ NoBuffer(t)
  /\ At(t, "register") =>
        \/ at(FromRegister) /\ Sole(t, 1) /\ open = None /\ Viewed(t) /\ ~known
        \/ /\ todo[t] \in Registering /\ Sole(t, 1) /\ open = None /\ Carrying(t, {})
           /\ symbols[t] # Empty
  /\ At(t, "cached") => at(FromCached) /\ Held(t, 1) /\ Viewed(t) /\ ~known
  /\ At(t, "didOpen") => at(FromDidOpen) /\ Held(t, 1) /\ Viewed(t) /\ ~known
  /\ At(t, "rawCached") => at(FromRaw) /\ Held(t, 1) /\ Viewed(t) /\ known
  /\ At(t, "ask") => at(FromAsk) /\ Held(t, 1) /\ Viewed(t) /\ known
  /\ At(t, "store") => at(FromStore) /\ Held(t, 1) /\ Viewed(t) /\ known /\ Answered(t)
  /\ At(t, "bodies") => at(FromBodies) /\ Held(t, 1) /\ Viewed(t) /\ known /\ Answered(t)
  /\ At(t, "close") =>
        \/ at(FromClose) /\ Held(t, 1)
        \/ todo[t] = Rename5 /\ Carries(t, 2, Halves(edit[t]))
        \/ \E n \in {1, 2} : todo[t] = Leaving(n) /\ Held(t, n)
        \/ todo[t] = Written /\ Held(t, 1) /\ edit[t] \in Edits /\ Landed(t)
  /\ At(t, "open") =>
        \/ todo[t] \in {Replace1, Rename1} /\ NoBuffer(t) /\ edit[t] \in Edits
        \/ todo[t] = Rename2 /\ Carries(t, 1, {}) /\ symbols[t] # Empty
  /\ At(t, "delete") =>
        \/ todo[t] = Replace2 /\ Carries(t, 1, {})
        \/ todo[t] = Rename3 /\ Carries(t, 2, {})
  /\ At(t, "insert") =>
        \/ todo[t] = Replace3 /\ Carries(t, 1, {<<edit[t], "deletion">>})
        \/ todo[t] = Rename4 /\ Carries(t, 2, {<<edit[t], "deletion">>})
  /\ At(t, "contents") => todo[t] = Edited /\ Carries(t, 1, Halves(edit[t]))
  /\ At(t, "write") => todo[t] = Gotten /\ Held(t, 1) /\ Composed(t)
  /\ At(t, "rewrite") =>
        todo[t] = Cleared /\ Held(t, 1) /\ Composed(t) /\ disk \subseteq {Cut} \cup Writes
  /\ At(t, "save") =>
        todo[t] = Finished /\ NoBuffer(t) /\ (edit[t] # None => Landed(t))
<1>1. CASE AtLookup(t)
  BY <1>1, LookupFollows DEF AtLookup, At
<1>2. CASE AtEdit(t)
  BY <1>2, EditsFollow, RegisteringFollows DEF AtEdit, At
<1>3. CASE AtEnd(t)
  BY <1>3, EditsFollow, LeavingFollows DEF AtEnd, At
<1>4. QED
  BY <1>1, <1>2, <1>3 DEF FilesInv

-----------------------------------------------------------------------------
(* The caches and the file.                                                *)

(* Contents keep what they kept as less is done and more may be lost.      *)
LEMMA StillKept ==
  ASSUME NEW c, NEW e, NEW x,
         done' \ lost' \subseteq done \ lost, lost \subseteq lost',
         {e} \subseteq lost' \cup x, Kept(c, {e})
  PROVE  /\ \A y \in done' \ lost' : y \in Writes \cap c \/ Halves(y) \subseteq c
         /\ \A y \in Edits \ (lost' \cup x) : Halves(y) \subseteq c \/ Halves(y) \cap c = {}
BY DEF Kept

(* Steps that leave the file alone.                                        *)
LEMMA FileStays ==
  ASSUME NEW t, Threads = {t}, FilesInv(t), ~At(t, "rewrite"), UNCHANGED <<disk, done, lost>>
  PROVE  EditsLand'
BY DEF FilesInv, EditsLand, Kept

(* Steps that leave the caches and what was looked up alone.               *)
LEMMA CachesStay ==
  ASSUME NEW t, Threads = {t}, FilesInv(t),
         UNCHANGED <<raw, high, rawSaved, highSaved, symbols, seen, mixed>>
  PROVE  CacheSound' /\ FreshSymbols'
BY DEF FilesInv, CacheSound, FreshSymbols, Sound

(* While the file is not being written again, nothing is missing in it.    *)
LEMMA FileKept ==
  ASSUME NEW t, Threads = {t}, FilesInv(t), ~At(t, "rewrite")
  PROVE  Kept(disk, {})
BY DEF FilesInv, EditsLand

(* A buffer that is older than the file is otherwise as it was.            *)
LEMMA OutdatedKeeps ==
  ASSUME NEW t, Threads = {t}, FilesInv(t), NEW n, Held(t, n), buf' = Outdated,
         UNCHANGED <<open, doc, own, disturbed>>
  PROVE  Held(t, n)' /\ buf' \in [Bufs -> Buffers \cup {None}]
<1>1. /\ own[t] \in Bufs /\ buf[own[t]] \in Buffers /\ buf[own[t]].refs = n /\ open = own[t]
      /\ \A b \in Bufs : b # own[t] => buf[b] = None
      /\ buf \in [Bufs -> Buffers \cup {None}]
  BY DEF Held, Sole, FilesInv, Typed
<1>2. /\ buf' \in [Bufs -> Buffers \cup {None}]
      /\ buf'[own[t]] \in Buffers /\ buf'[own[t]].refs = n
      /\ buf'[own[t]].contents = buf[own[t]].contents /\ buf'[own[t]].inLs = buf[own[t]].inLs
      /\ \A b \in Bufs : b # own[t] => buf'[b] = None
  BY <1>1 DEF Outdated, Buffers
<1>3. QED
  BY <1>1, <1>2 DEF Held, Sole

-----------------------------------------------------------------------------
(* Opening and closing.                                                    *)

(* A call begins with nothing to do and no buffer.                         *)
LEMMA CallKeeps ==
  ASSUME NEW t, Threads = {t}, FilesInv(t), Call(t)
  PROVE  FilesInv(t)'
<1>1. /\ todo[t] = <<>> /\ NoBuffer(t) /\ ~At(t, "rewrite")
      /\ UNCHANGED <<disk, buf, open, doc, cacheVars, own, text, done, lost, broken>>
      /\ symbols' = [symbols EXCEPT ![t] = None] /\ seen' = [seen EXCEPT ![t] = {disk}]
      /\ mixed' = mixed \cap {raw, high, rawSaved, highSaved}
  BY Located DEF Call, At
<1>2. /\ edit' \in [Threads -> Edits \cup {None}] /\ edit'[t] \in Edits \cup {None}
      /\ todo' \in [Threads -> Seq(Steps)] /\ todo'[t] \in Looking(Lookup, edit'[t])
  <2>1. ASSUME NEW rest \in AfterLookup(edit'[t]), todo' = [todo EXCEPT ![t] = Lookup \o rest]
        PROVE  todo' \in [Threads -> Seq(Steps)] /\ todo'[t] \in Looking(Lookup, edit'[t])
    <3>1. Lookup \o rest \in Looking(Lookup, edit'[t])
      BY DEF Looking
    <3>2. Lookup \o rest \in Seq(Steps)
      BY <3>1, LookupFollows
    <3>3. QED
      BY <2>1, <3>1, <3>2 DEF FilesInv, Typed
  <2>2. CASE /\ todo' = [todo EXCEPT ![t] = Append(Lookup, "save")]
             /\ edit' = [edit EXCEPT ![t] = None]
    <3>1. edit' \in [Threads -> Edits \cup {None}] /\ edit'[t] = None
      BY <2>2 DEF FilesInv, Typed
    <3>2. Append(Lookup, "save") = Lookup \o Finished
      BY StagesFollow, AppendIsConcat DEF Steps, Finished
    <3>3. Finished \in AfterLookup(edit'[t])
      BY <3>1 DEF AfterLookup
    <3>4. QED
      BY <2>1, <2>2, <3>1, <3>2, <3>3
  <2>3. CASE \E e \in Edits, plan \in {Replace, Rename} :
                todo' = [todo EXCEPT ![t] = plan] /\ edit' = [edit EXCEPT ![t] = e]
    <3>1. edit' \in [Threads -> Edits \cup {None}] /\ edit'[t] \in Edits
      BY <2>3 DEF FilesInv, Typed
    <3>2. Replace = Lookup \o Replace1 /\ Rename = Lookup \o Rename1
      BY DEF Replace, Rename, Replace1, Rename1
    <3>3. AfterLookup(edit'[t]) = {Replace1, Rename1}
      BY <3>1 DEF AfterLookup
    <3>4. QED
      BY <2>1, <2>3, <3>1, <3>2, <3>3
  <2>4. QED
    BY <2>2, <2>3 DEF Call
<1>3. Typed(t)' /\ Observed(t)'
  BY <1>1, <1>2 DEF FilesInv, Typed, Observed
<1>4. AtLookup(t)'
  BY <1>1, <1>2 DEF AtLookup, NoBuffer
<1>5. CacheSound' /\ FreshSymbols'
  <2>1. FreshSymbols'
    BY <1>1 DEF FilesInv, Typed, FreshSymbols
  <2>2. CacheSound'
    BY <1>1 DEF FilesInv, CacheSound, Sound
  <2>3. QED
    BY <2>1, <2>2
<1>6. EditsLand'
  BY <1>1, FileStays
<1>7. QED
  BY <1>3, <1>4, <1>5, <1>6 DEF FilesInv

(* find_unique raises before the edit has opened the file.                 *)
LEMMA SymbolNotFoundKeeps ==
  ASSUME NEW t, Threads = {t}, FilesInv(t), SymbolNotFound(t)
  PROVE  FilesInv(t)'
<1>1. /\ At(t, "open") /\ symbols[t] = Empty /\ todo' = [todo EXCEPT ![t] = <<>>]
      /\ UNCHANGED <<disk, buf, open, doc, ready, cacheVars, own, edit, symbols, text, history>>
  BY DEF SymbolNotFound
<1>2. Typed(t)' /\ Observed(t)'
  BY <1>1, EditTypes DEF FilesInv, Typed, Observed
<1>3. AtEnd(t)'
  <2>1. NoBuffer(t)
    BY <1>1, Located
  <2>2. QED
    BY <1>1, <2>1 DEF AtEnd, NoBuffer, FilesInv, Typed
<1>4. CacheSound' /\ FreshSymbols'
  BY <1>1, CachesStay
<1>5. EditsLand'
  BY <1>1, FileStays DEF At
<1>6. QED
  BY <1>2, <1>3, <1>4, <1>5 DEF FilesInv

(* Of the two contexts of a renaming the inner one shares the buffer.      *)
LEMMA ShareKeeps ==
  ASSUME NEW t, Threads = {t}, FilesInv(t), Share(t)
  PROVE  FilesInv(t)'
<1>1. todo[t] = Rename2 /\ Carries(t, 1, {}) /\ At(t, "open")
  BY Located DEF Share, Opening, NoBuffer
<1>2. /\ open = own[t] /\ own[t] \in Bufs /\ buf[own[t]] \in Buffers /\ buf[own[t]].inLs
      /\ buf[own[t]].refs = 1 /\ edit[t] \in Edits
  BY <1>1 DEF Carries, Carrying, Held, Sole
<1>3. /\ buf' = [buf EXCEPT ![own[t]] = [buf[own[t]] EXCEPT !.refs = @ + 1]]
      /\ todo' = [todo EXCEPT ![t] = Tail(@)]
      /\ UNCHANGED <<disk, open, doc, ready, cacheVars, own, edit, symbols, text, history>>
  <2>1. Opened([buf[own[t]] EXCEPT !.refs = @ + 1]) = [buf[own[t]] EXCEPT !.refs = @ + 1]
    BY <1>2 DEF Opened, Buffers
  <2>2. own' = own
    BY <1>2 DEF Share, FilesInv, Typed
  <2>3. QED
    BY <1>1, <1>2, <2>1, <2>2 DEF Share, Advance, Buffers
<1>4. buf'[own[t]] \in Buffers /\ buf'[own[t]].refs = 2 /\ buf'[own[t]].inLs
      /\ buf'[own[t]].contents = buf[own[t]].contents /\ buf'[own[t]].stale = buf[own[t]].stale
      /\ \A b \in Bufs : b # own[t] => buf'[b] = buf[b]
  BY <1>2, <1>3 DEF FilesInv, Typed, Buffers
<1>5. todo'[t] = Rename3
  BY <1>1, <1>3, EditsFollow DEF FilesInv, Typed
<1>6. Typed(t)' /\ Observed(t)'
  BY <1>1, <1>2, <1>3, <1>4, <1>5, EditTypes, EditsFollow DEF FilesInv, Typed, Observed
<1>7. Sole(t, 2)' /\ open' = own'[t]
  BY <1>1, <1>2, <1>3, <1>4 DEF Carries, Held, Sole
<1>8. Carrying(t, {})'
  BY <1>1, <1>2, <1>3, <1>4 DEF Carries, Carrying, Kept
<1>9. AtEdit(t)'
  BY <1>5, <1>7, <1>8 DEF AtEdit, Carries, Held
<1>10. CacheSound' /\ FreshSymbols'
  BY <1>3, CachesStay
<1>11. EditsLand'
  BY <1>1, <1>3, FileStays DEF At
<1>12. QED
  BY <1>6, <1>9, <1>10, <1>11 DEF FilesInv

(* A buffer is created for a lookup, or for an edit, which reads it and    *)
(* tells the server at once.                                               *)
LEMMA CreateKeeps ==
  ASSUME NEW t, Threads = {t}, FilesInv(t), Create(t)
  PROVE  FilesInv(t)'
<1>1. /\ NoBuffer(t)
      /\ \/ At(t, "peek") /\ todo[t] \in Looking(Lookup, edit[t])
         \/ /\ At(t, "open") /\ todo[t] \in {Replace1, Rename1} /\ symbols[t] # Empty
            /\ edit[t] \in Edits
  BY Located DEF Create, Opening, NoBuffer, Carries, Held, Sole
<1>2. PICK b \in Bufs :
         LET c == IF At(t, "open") THEN Opened(NewBuffer) ELSE NewBuffer
         IN  /\ buf' = [buf EXCEPT ![b] = c]
             /\ doc' = IF c.inLs THEN c.contents ELSE doc
             /\ disturbed' = IF c.inLs THEN disturbed \ {t} ELSE disturbed
             /\ own' = [own EXCEPT ![t] = b]
  BY DEF Create
<1>3. /\ todo' = [todo EXCEPT ![t] = <<"register">> \o Tail(@)]
      /\ UNCHANGED <<disk, open, ready, cacheVars, edit, symbols, text, seen, done, broken,
                     mixed, lost>>
  BY DEF Create
<1>4. /\ NewBuffer \in Buffers /\ NewBuffer.refs = 1 /\ ~NewBuffer.inLs
      /\ NewBuffer.contents = None /\ NewBuffer.hash = None
  BY DEF NewBuffer, Buffers
<1>5. /\ own'[t] = b /\ own' \in [Threads -> Bufs \cup {None}]
      /\ \A x \in Bufs : x # b => buf'[x] = None
  BY <1>1, <1>2 DEF FilesInv, Typed, NoBuffer
<1>6. CacheSound' /\ FreshSymbols'
  BY <1>3, CachesStay
<1>7. EditsLand'
  BY <1>1, <1>3, FileStays DEF At
<1>8. CASE At(t, "peek") /\ todo[t] \in Looking(Lookup, edit[t])
  <2>1. ~At(t, "open")
    BY <1>8 DEF At
  <2>2. buf'[b] = NewBuffer /\ doc' = None /\ buf' \in [Bufs -> Buffers \cup {None}]
    BY <1>1, <1>2, <1>4, <2>1 DEF FilesInv, Typed, NoBuffer
  <2>3. todo'[t] \in Looking(FromRegister, edit[t]) /\ todo'[t] \in Seq(Steps)
    <3>1. <<"register">> \o Tail(todo[t]) \in Looking(FromRegister, edit[t])
      BY <1>8, LookupFollows
    <3>2. QED
      BY <1>3, <3>1, LookupFollows DEF FilesInv, Typed
  <2>4. Typed(t)' /\ Observed(t)'
    BY <1>3, <1>5, <1>8, <2>2, <2>3 DEF FilesInv, Typed, Observed, At
  <2>5. Sole(t, 1)' /\ Viewed(t)' /\ ~buf'[own'[t]].inLs /\ open' = None
    BY <1>1, <1>3, <1>4, <1>5, <2>2 DEF Sole, Viewed, NoBuffer
  <2>6. AtLookup(t)'
    BY <1>3, <2>3, <2>5 DEF AtLookup
  <2>7. QED
    BY <1>6, <1>7, <2>4, <2>6 DEF FilesInv
<1>9. CASE /\ At(t, "open") /\ todo[t] \in {Replace1, Rename1} /\ symbols[t] # Empty
           /\ edit[t] \in Edits
  <2>1. disk \in Contents /\ Contents \in SUBSET Contents
    BY DEF FilesInv, Typed
  <2>2. /\ Opened(NewBuffer) \in Buffers /\ Opened(NewBuffer).refs = 1 /\ Opened(NewBuffer).inLs
        /\ Opened(NewBuffer).contents = disk /\ ~Opened(NewBuffer).stale
    BY <2>1 DEF Opened, NewBuffer, Read, Buffers
  <2>3. /\ buf'[b] = Opened(NewBuffer) /\ doc' = disk /\ buf' \in [Bufs -> Buffers \cup {None}]
    BY <1>2, <1>9, <2>2 DEF FilesInv, Typed
  <2>4. todo'[t] \in Registering /\ todo'[t] \in Seq(Steps)
    <3>1. <<"register">> \o Tail(todo[t]) \in Registering
      BY <1>9, EditsFollow, RegisteringFollows
    <3>2. QED
      BY <1>3, <3>1, EditTypes DEF FilesInv, Typed
  <2>5. Typed(t)' /\ Observed(t)'
    BY <1>3, <1>5, <1>9, <2>1, <2>3, <2>4 DEF FilesInv, Typed, Observed, At
  <2>6. Sole(t, 1)' /\ open' = None
    BY <1>1, <1>3, <1>5, <2>1, <2>2, <2>3 DEF Sole, NoBuffer
  <2>7. Carrying(t, {})'
    <3>1. Kept(disk, {})
      BY <1>9, FileKept DEF At
    <3>2. Kept(buf[own[t]].contents, {edit[t]})'
      BY <1>3, <1>5, <2>2, <2>3, <3>1 DEF Kept
    <3>3. QED
      BY <1>3, <1>5, <1>9, <2>1, <2>2, <2>3, <3>2 DEF Carrying
  <2>8. AtEdit(t)'
    BY <1>3, <1>9, <2>4, <2>6, <2>7 DEF AtEdit
  <2>9. QED
    BY <1>6, <1>7, <2>5, <2>8 DEF FilesInv
<1>10. QED
  BY <1>1, <1>8, <1>9

(* The new buffer takes its place under the URI.                           *)
LEMMA RegisterKeeps ==
  ASSUME NEW t, Threads = {t}, FilesInv(t), Register(t)
  PROVE  FilesInv(t)'
<1>1. /\ At(t, "register") /\ open' = own[t] /\ todo' = [todo EXCEPT ![t] = Tail(@)]
      /\ UNCHANGED <<disk, buf, doc, ready, cacheVars, own, edit, symbols, text, history>>
  BY DEF Register, Advance
<1>2. CacheSound' /\ FreshSymbols'
  BY <1>1, CachesStay
<1>3. EditsLand'
  BY <1>1, FileStays DEF At
<1>4. Sole(t, 1) => Held(t, 1)'
  BY <1>1 DEF Held, Sole
<1>5. CASE /\ todo[t] \in Looking(FromRegister, edit[t])
           /\ Sole(t, 1) /\ open = None /\ Viewed(t) /\ ~buf[own[t]].inLs
  <2>1. todo'[t] \in Looking(FromCached, edit[t]) /\ todo'[t] \in Seq(Steps)
    BY <1>1, <1>5, LookupFollows DEF FilesInv, Typed
  <2>2. Typed(t)' /\ Observed(t)'
    BY <1>1, <1>5, <2>1, LookupFollows DEF FilesInv, Typed, Observed, Sole
  <2>3. Viewed(t)' /\ ~buf'[own'[t]].inLs
    BY <1>1, <1>5 DEF Viewed
  <2>4. AtLookup(t)'
    BY <1>1, <1>4, <1>5, <2>1, <2>3 DEF AtLookup
  <2>5. QED
    BY <1>2, <1>3, <2>2, <2>4 DEF FilesInv
<1>6. CASE /\ todo[t] \in Registering /\ Sole(t, 1) /\ open = None /\ Carrying(t, {})
           /\ symbols[t] # Empty
  <2>1. todo'[t] \in {Replace2, Rename2} /\ todo'[t] \in Seq(Steps)
    BY <1>1, <1>6, RegisteringFollows, EditTypes DEF FilesInv, Typed
  <2>2. Typed(t)' /\ Observed(t)'
    BY <1>1, <1>6, <2>1, RegisteringFollows DEF FilesInv, Typed, Observed, Sole
  <2>3. Carrying(t, {})'
    BY <1>1, <1>6 DEF Carrying, Kept
  <2>4. AtEdit(t)'
    BY <1>1, <1>4, <1>6, <2>1, <2>3 DEF AtEdit, Carries
  <2>5. QED
    BY <1>2, <1>3, <2>2, <2>4 DEF FilesInv
<1>7. QED
  BY <1>1, <1>5, <1>6, Located

(* The last one to close takes the buffer and the document away.           *)
LEMMA CloseKeeps ==
  ASSUME NEW t, Threads = {t}, FilesInv(t), Close(t)
  PROVE  FilesInv(t)'
<1>1. /\ At(t, "close")
      /\ UNCHANGED <<disk, ready, cacheVars, edit, symbols, text, seen, unready, done, mixed, lost>>
  BY DEF Close
<1>2. CacheSound' /\ FreshSymbols'
  BY <1>1, CachesStay
<1>3. EditsLand'
  BY <1>1, FileStays DEF At
<1>4. ASSUME Held(t, 1)
      PROVE  /\ buf' = [buf EXCEPT ![own[t]] = None] /\ open' = None
             /\ own' = [own EXCEPT ![t] = None] /\ NoBuffer(t)'
             /\ broken' = broken /\ todo' = [todo EXCEPT ![t] = Tail(@)]
  <2>1. ~([buf[own[t]] EXCEPT !.refs = @ - 1].refs > 0)
    BY <1>4 DEF Held, Sole, Buffers
  <2>2. /\ buf' = [buf EXCEPT ![own[t]] = None] /\ open' = None
        /\ own' = [own EXCEPT ![t] = None] /\ open # None
        /\ doc' = IF buf[own[t]].inLs THEN None ELSE doc
    BY <1>4, <2>1 DEF Close, Held, Sole, Buffers
  <2>3. broken' = broken /\ todo' = [todo EXCEPT ![t] = Tail(@)]
    BY <2>1, <2>2 DEF Close, Advance
  <2>4. NoBuffer(t)'
    BY <1>4, <2>2 DEF Held, Sole, NoBuffer, FilesInv, Typed
  <2>5. QED
    BY <2>2, <2>3, <2>4
<1>5. ASSUME Held(t, 2)
      PROVE  /\ Held(t, 1)' /\ UNCHANGED <<open, doc, own, broken, disturbed>>
             /\ todo' = [todo EXCEPT ![t] = Tail(@)]
             /\ buf' \in [Bufs -> Buffers \cup {None}]
             /\ buf'[own[t]].contents = buf[own[t]].contents
             /\ buf'[own[t]].stale = buf[own[t]].stale /\ buf'[own[t]].inLs = buf[own[t]].inLs
  <2>1. [buf[own[t]] EXCEPT !.refs = @ - 1].refs > 0
    BY <1>5 DEF Held, Sole, Buffers
  <2>2. /\ buf' = [buf EXCEPT ![own[t]] = [buf[own[t]] EXCEPT !.refs = @ - 1]]
        /\ UNCHANGED <<open, doc, own, broken, disturbed>> /\ todo' = [todo EXCEPT ![t] = Tail(@)]
    BY <2>1 DEF Close, Advance
  <2>3. /\ buf'[own[t]] \in Buffers /\ buf'[own[t]].refs = 1
        /\ buf'[own[t]].contents = buf[own[t]].contents
        /\ buf'[own[t]].stale = buf[own[t]].stale /\ buf'[own[t]].inLs = buf[own[t]].inLs
        /\ \A b \in Bufs : b # own[t] => buf'[b] = buf[b]
    BY <1>5, <2>2 DEF Held, Sole, Buffers, FilesInv, Typed
  <2>4. buf' \in [Bufs -> Buffers \cup {None}]
    BY <1>5, <2>2, <2>3 DEF Held, Sole, FilesInv, Typed
  <2>5. Held(t, 1)'
    BY <1>5, <2>2, <2>3 DEF Held, Sole
  <2>6. QED
    BY <2>2, <2>3, <2>4, <2>5
<1>6. ASSUME todo' = [todo EXCEPT ![t] = Tail(@)], Tail(todo[t]) \in Seq(Steps),
             todo[t] # <<>>, open' \in Bufs \cup {None}, doc' \in Contents \cup {None},
             buf' \in [Bufs -> Buffers \cup {None}], own' \in [Threads -> Bufs \cup {None}],
             broken' = broken
      PROVE  Typed(t)' /\ Observed(t)'
  BY <1>1, <1>6 DEF FilesInv, Typed, Observed
<1>7. ASSUME Held(t, 1), Tail(todo[t]) \in Seq(Steps), todo[t] # <<>>
      PROVE  Typed(t)' /\ Observed(t)' /\ NoBuffer(t)' /\ todo'[t] = Tail(todo[t])
  <2>1. buf' \in [Bufs -> Buffers \cup {None}] /\ own' \in [Threads -> Bufs \cup {None}]
    BY <1>4, <1>7 DEF FilesInv, Typed, Held, Sole
  <2>2. open' = None /\ doc' = None
    BY <1>4, <1>7 DEF NoBuffer
  <2>3. todo'[t] = Tail(todo[t])
    BY <1>4, <1>7 DEF FilesInv, Typed
  <2>4. QED
    BY <1>4, <1>6, <1>7, <2>1, <2>2, <2>3
<1>8. CASE todo[t] \in Looking(FromClose, edit[t]) /\ Held(t, 1)
  <2>1. todo[t] # <<>> /\ Tail(todo[t]) \in AfterLookup(edit[t])
    BY <1>8, LookupFollows
  <2>2. Tail(todo[t]) \in Seq(Steps)
    BY <2>1, EditTypes DEF AfterLookup
  <2>3. Typed(t)' /\ Observed(t)' /\ NoBuffer(t)' /\ todo'[t] \in AfterLookup(edit[t])
    BY <1>7, <1>8, <2>1, <2>2
  <2>4. edit[t] \in Edits \cup {None}
    BY DEF FilesInv, Typed
  <2>5. CASE edit[t] = None
    <3>1. AtEnd(t)'
      BY <1>1, <2>3, <2>5 DEF AfterLookup, AtEnd
    <3>2. QED
      BY <1>2, <1>3, <2>3, <3>1 DEF FilesInv
  <2>6. CASE edit[t] # None
    <3>1. AtEdit(t)'
      BY <1>1, <1>8, <2>3, <2>4, <2>6 DEF AfterLookup, AtEdit
    <3>2. QED
      BY <1>2, <1>3, <2>3, <3>1 DEF FilesInv
  <2>7. QED
    BY <2>5, <2>6
<1>9. CASE todo[t] = Rename5 /\ Carries(t, 2, Halves(edit[t]))
  <2>1. Held(t, 2)
    BY <1>9 DEF Carries
  <2>2. todo'[t] = Edited /\ Tail(todo[t]) \in Seq(Steps) /\ todo[t] # <<>>
    BY <1>5, <1>9, <2>1, EditsFollow, EditTypes DEF FilesInv, Typed
  <2>3. Typed(t)' /\ Observed(t)'
    BY <1>5, <1>6, <2>1, <2>2 DEF FilesInv, Typed
  <2>4. Carries(t, 1, Halves(edit[t]))'
    BY <1>1, <1>5, <1>9, <2>1 DEF Carries, Carrying, Kept
  <2>5. AtEdit(t)'
    BY <2>2, <2>4 DEF AtEdit
  <2>6. QED
    BY <1>2, <1>3, <2>3, <2>5 DEF FilesInv
<1>10. CASE todo[t] = Leaving(1) /\ Held(t, 1)
  <2>1. todo[t] # <<>> /\ Tail(todo[t]) = <<>> /\ Tail(todo[t]) \in Seq(Steps)
    BY <1>10, LeavingFollows
  <2>2. Typed(t)' /\ Observed(t)' /\ NoBuffer(t)' /\ todo'[t] = <<>>
    BY <1>7, <1>10, <2>1
  <2>3. AtEnd(t)'
    BY <2>2 DEF AtEnd
  <2>4. QED
    BY <1>2, <1>3, <2>2, <2>3 DEF FilesInv
<1>11. CASE todo[t] = Leaving(2) /\ Held(t, 2)
  <2>1. todo'[t] = Leaving(1) /\ Tail(todo[t]) \in Seq(Steps) /\ todo[t] # <<>>
    BY <1>5, <1>11, LeavingFollows DEF FilesInv, Typed
  <2>2. Typed(t)' /\ Observed(t)'
    BY <1>5, <1>6, <1>11, <2>1 DEF FilesInv, Typed
  <2>3. AtEnd(t)'
    BY <1>5, <1>11, <2>1 DEF AtEnd
  <2>4. QED
    BY <1>2, <1>3, <2>2, <2>3 DEF FilesInv
<1>12. CASE todo[t] = Written /\ Held(t, 1) /\ edit[t] \in Edits /\ Landed(t)
  <2>1. todo[t] # <<>> /\ Tail(todo[t]) = Finished /\ Tail(todo[t]) \in Seq(Steps)
    BY <1>12, EditsFollow, EditTypes
  <2>2. Typed(t)' /\ Observed(t)' /\ NoBuffer(t)' /\ todo'[t] = Finished
    BY <1>7, <1>12, <2>1
  <2>3. Landed(t)'
    BY <1>1, <1>12 DEF Landed
  <2>4. AtEnd(t)'
    BY <2>2, <2>3 DEF AtEnd
  <2>5. QED
    BY <1>2, <1>3, <2>2, <2>4 DEF FilesInv
<1>13. QED
  BY <1>1, <1>8, <1>9, <1>10, <1>11, <1>12, Located

-----------------------------------------------------------------------------
(* The lookup.                                                             *)

(* A step of a lookup that goes on with its buffer, which holds what the   *)
(* file had during the call, and enters nothing in the caches but what it  *)
(* has found there.                                                        *)
LEMMA LookupGoesOn ==
  ASSUME NEW t, Threads = {t}, FilesInv(t), todo[t] # <<>>, ~At(t, "rewrite"), Held(t, 1),
         NEW b \in Buffers, b.refs = 1, buf' = [buf EXCEPT ![own[t]] = b],
         b.contents \in seen[t] \cup {None}, b.hash \in {b.contents, None},
         IF b.inLs
         THEN /\ b.contents # None /\ doc' \in seen[t]
              /\ t \notin disturbed' => ~b.stale /\ doc' = b.contents
         ELSE doc' = None,
         NEW q \in Seq(Steps), todo' = [todo EXCEPT ![t] = q],
         NEW s \in Contents \cup {Empty, None}, symbols' = [symbols EXCEPT ![t] = s],
         s \in {symbols[t], Empty} \/ \E c \in seen[t] : Sound(<<c, s>>),
         \A entry \in {raw', high'} :
            \/ entry \in {raw, high}
            \/ entry \in Entries /\ (entry[2] \in {entry[1], Empty} \/ entry \in mixed'),
         mixed \subseteq mixed',
         UNCHANGED <<disk, open, rawSaved, highSaved, own, edit, text, seen, done, broken, lost>>
  PROVE  /\ todo'[t] = q /\ symbols'[t] = s
         /\ Held(t, 1)' /\ Viewed(t)' /\ buf'[own'[t]] = b
         /\ Typed(t)' /\ Observed(t)' /\ CacheSound' /\ FreshSymbols' /\ EditsLand'
<1>1. todo'[t] = q /\ todo' \in [Threads -> Seq(Steps)]
  BY DEF FilesInv, Typed
<1>2. symbols'[t] = s /\ symbols' \in [Threads -> Contents \cup {Empty, None}]
  BY DEF FilesInv, Typed
<1>3. buf' \in [Bufs -> Buffers \cup {None}] /\ buf'[own'[t]] = b
      /\ \A x \in Bufs : x # own[t] => buf'[x] = buf[x]
  BY DEF FilesInv, Typed, Held, Sole
<1>4. seen[t] \subseteq Contents
  BY DEF FilesInv, Typed
<1>5. Held(t, 1)'
  BY <1>3, <1>4 DEF Held, Sole
<1>6. Viewed(t)'
  BY <1>3 DEF Viewed
<1>7. doc' \in Contents \cup {None}
  BY <1>4
<1>8. \A entry \in {raw, high, rawSaved, highSaved}' :
         /\ entry \in Entries \cup {None}
         /\ entry # None => entry[2] \in {entry[1], Empty} \/ entry \in mixed'
  BY DEF FilesInv, Typed, CacheSound, Sound
<1>9. Typed(t)'
  BY <1>1, <1>2, <1>3, <1>7, <1>8 DEF FilesInv, Typed
<1>10. Observed(t)'
  BY DEF FilesInv, Observed
<1>11. FreshSymbols'
  <2>1. \A c, x : Sound(<<c, x>>) => Sound(<<c, x>>)'
    BY DEF Sound
  <2>2. s \notin {None, Empty} => \E c \in seen[t] : Sound(<<c, s>>)
    BY DEF FilesInv, FreshSymbols
  <2>3. QED
    BY <1>2, <2>1, <2>2 DEF FreshSymbols
<1>12. CacheSound'
  BY <1>8 DEF CacheSound, Sound
<1>13. EditsLand'
  BY FileStays
<1>14. QED
  BY <1>1, <1>2, <1>3, <1>5, <1>6, <1>9, <1>10, <1>11, <1>12, <1>13

(* A probe finds an entry for contents that the file had, or nothing.      *)
LEMMA ProbeFinds ==
  ASSUME NEW t, Threads = {t}, FilesInv(t), todo[t] # <<>>, Held(t, 1), Viewed(t)
  PROVE  \A entry \in {raw, high} :
            LET b == IF entry = None THEN buf[own[t]] ELSE Hashed(buf[own[t]]) IN
            /\ b \in Buffers /\ b.refs = 1 /\ b.inLs = buf[own[t]].inLs
            /\ b.contents \in seen[t] \cup {None} /\ b.hash \in {b.contents, None}
            /\ IF b.inLs
               THEN /\ b.contents # None /\ doc \in seen[t]
                    /\ t \notin disturbed => ~b.stale /\ doc = b.contents
               ELSE doc = None
            /\ entry # None /\ entry[1] = b.hash =>
                  /\ b.contents \in seen[t] /\ entry[2] \in Contents \cup {Empty}
                  /\ Sound(<<b.contents, entry[2]>>)
<1> DEFINE a == buf[own[t]]
<1>1. /\ a \in Buffers /\ a.refs = 1 /\ seen[t] \in SUBSET Contents /\ disk \in seen[t]
      /\ a.contents \in seen[t] \cup {None} /\ a.hash \in {a.contents, None}
  BY DEF Held, Sole, Viewed, FilesInv, Typed, Observed
<1>2. IF a.inLs
      THEN /\ a.contents # None /\ doc \in seen[t]
           /\ t \notin disturbed => ~a.stale /\ doc = a.contents
      ELSE doc = None
  BY DEF Held, Sole, Viewed
<1> HIDE DEF a
<1> TAKE entry \in {raw, high}
<1> DEFINE b == IF entry = None THEN a ELSE Hashed(a)
<1>3. /\ Hashed(a) \in Buffers /\ Hashed(a).refs = a.refs /\ Hashed(a).inLs = a.inLs
      /\ Hashed(a).contents \in seen[t] /\ Hashed(a).hash = Hashed(a).contents
      /\ ~a.stale => ~Hashed(a).stale
      /\ ~a.stale /\ a.contents # None => Hashed(a).contents = a.contents
  BY <1>1, Buffered
<1>4. /\ b \in Buffers /\ b.refs = 1 /\ b.inLs = a.inLs
      /\ b.contents \in seen[t] \cup {None} /\ b.hash \in {b.contents, None}
      /\ entry # None => b.contents \in seen[t] /\ b.hash = b.contents
  BY <1>1, <1>3
<1>5. \A c \in seen[t] : c # None
  BY <1>1
<1>6. IF b.inLs
      THEN /\ b.contents # None /\ doc \in seen[t]
           /\ t \notin disturbed => ~b.stale /\ doc = b.contents
      ELSE doc = None
  BY <1>2, <1>3, <1>5
<1>7. ASSUME entry # None, entry[1] = b.hash
      PROVE  entry[2] \in Contents \cup {Empty} /\ Sound(<<b.contents, entry[2]>>)
  <2>1. entry \in Entries /\ Sound(entry)
    BY <1>7 DEF FilesInv, Typed, CacheSound
  <2>2. entry = <<entry[1], entry[2]>> /\ entry[2] \in Contents \cup {Empty}
    BY <2>1 DEF Entries
  <2>3. entry[1] = b.contents
    BY <1>4, <1>7
  <2>4. QED
    BY <2>1, <2>2, <2>3 DEF Sound
<1>8. QED
  BY <1>4, <1>6, <1>7 DEF a

(* A high-level entry is taken only if its hash is that of the buffer.     *)
LEMMA CheckCacheKeeps ==
  ASSUME NEW t, Threads = {t}, FilesInv(t), CheckCache(t)
  PROVE  FilesInv(t)'
<1>1. /\ todo[t] \in Looking(FromCached, edit[t]) /\ todo[t] # <<>> /\ Held(t, 1) /\ Viewed(t)
      /\ ~buf[own[t]].inLs /\ ~At(t, "rewrite")
  BY Located DEF CheckCache, At
<1>2. UNCHANGED <<disk, open, doc, ready, cacheVars, own, edit, text, history>>
  BY DEF CheckCache
<1> DEFINE b == IF high = None THEN buf[own[t]] ELSE Hashed(buf[own[t]])
<1>3. /\ b \in Buffers /\ b.refs = 1 /\ ~b.inLs
      /\ b.contents \in seen[t] \cup {None} /\ b.hash \in {b.contents, None}
      /\ IF b.inLs
         THEN /\ b.contents # None /\ doc' \in seen[t]
              /\ t \notin disturbed' => ~b.stale /\ doc' = b.contents
         ELSE doc' = None
      /\ high # None /\ high[1] = b.hash =>
            /\ b.contents \in seen[t] /\ high[2] \in Contents \cup {Empty}
            /\ Sound(<<b.contents, high[2]>>)
  BY <1>1, <1>2, ProbeFinds
<1>4. /\ buf' = [buf EXCEPT ![own[t]] = b]
      /\ \/ /\ high # None /\ high[1] = b.hash /\ symbols' = [symbols EXCEPT ![t] = high[2]]
            /\ SkipToClose(t)
         \/ symbols' = symbols /\ Advance(t)
  BY DEF CheckCache, Probe
<1> HIDE DEF b
<1>5. CASE /\ high # None /\ high[1] = b.hash /\ symbols' = [symbols EXCEPT ![t] = high[2]]
           /\ SkipToClose(t)
  <2>1. PICK q \in Looking(FromClose, edit[t]) : todo' = [todo EXCEPT ![t] = q]
    BY <1>1, <1>5, LookupSkipped DEF SkipToClose, FilesInv, Typed
  <2>2. q \in Seq(Steps)
    BY LookupFollows
  <2> DEFINE s == high[2]
  <2>3. /\ s \in Contents \cup {Empty, None} /\ symbols' = [symbols EXCEPT ![t] = s]
        /\ \E c \in seen[t] : Sound(<<c, s>>)
    BY <1>3, <1>5
  <2> HIDE DEF s
  <2>4. /\ todo'[t] = q /\ Held(t, 1)'
        /\ Typed(t)' /\ Observed(t)' /\ CacheSound' /\ FreshSymbols' /\ EditsLand'
    BY <1>1, <1>2, <1>3, <1>4, <2>1, <2>2, <2>3, LookupGoesOn
  <2>5. AtLookup(t)'
    BY <1>2, <2>1, <2>4 DEF AtLookup
  <2>6. QED
    BY <2>4, <2>5 DEF FilesInv
<1>6. CASE symbols' = symbols /\ Advance(t)
  <2>1. todo' = [todo EXCEPT ![t] = Tail(todo[t])]
    BY <1>6 DEF Advance
  <2>2. Tail(todo[t]) \in Looking(FromDidOpen, edit[t]) /\ Tail(todo[t]) \in Seq(Steps)
    BY <1>1, LookupFollows
  <2>3. /\ symbols' = [symbols EXCEPT ![t] = symbols[t]]
        /\ symbols[t] \in Contents \cup {Empty, None}
    BY <1>6 DEF FilesInv, Typed
  <2>4. /\ todo'[t] = Tail(todo[t]) /\ Held(t, 1)' /\ Viewed(t)' /\ buf'[own'[t]] = b
        /\ Typed(t)' /\ Observed(t)' /\ CacheSound' /\ FreshSymbols' /\ EditsLand'
    BY <1>1, <1>2, <1>3, <1>4, <2>1, <2>2, <2>3, LookupGoesOn
  <2>5. AtLookup(t)'
    BY <1>2, <1>3, <2>2, <2>4 DEF AtLookup
  <2>6. QED
    BY <2>4, <2>5 DEF FilesInv
<1>7. QED
  BY <1>4, <1>5, <1>6

(* The server is sent the contents the buffer has.                         *)
LEMMA EnsureOpenInLsKeeps ==
  ASSUME NEW t, Threads = {t}, FilesInv(t), EnsureOpenInLs(t)
  PROVE  FilesInv(t)'
<1>1. /\ todo[t] \in Looking(FromDidOpen, edit[t]) /\ todo[t] # <<>> /\ Held(t, 1) /\ Viewed(t)
      /\ ~buf[own[t]].inLs /\ ~At(t, "rewrite")
  BY Located DEF EnsureOpenInLs, At
<1> DEFINE b == Opened(buf[own[t]])
<1>2. /\ b \in Buffers /\ b.refs = 1 /\ b.inLs /\ ~b.stale
      /\ b.contents \in seen[t] /\ b.hash \in {b.contents, None}
  <2>1. /\ buf[own[t]] \in Buffers /\ buf[own[t]].refs = 1
        /\ seen[t] \in SUBSET Contents /\ disk \in seen[t]
        /\ buf[own[t]].contents \in seen[t] \cup {None}
        /\ buf[own[t]].hash \in {buf[own[t]].contents, None}
    BY <1>1 DEF Held, Sole, Viewed, FilesInv, Typed, Observed
  <2>2. QED
    BY <1>1, <2>1, Buffered
<1>3. /\ buf' = [buf EXCEPT ![own[t]] = b] /\ doc' = b.contents
      /\ todo' = [todo EXCEPT ![t] = Tail(todo[t])]
      /\ UNCHANGED <<disk, open, ready, cacheVars, own, edit, symbols, text, seen, done, broken,
                     mixed, lost>>
  BY <1>1 DEF EnsureOpenInLs, Advance
<1> HIDE DEF b
<1>4. b.contents # None /\ doc' \in seen[t] /\ doc' = b.contents
  BY <1>2, <1>3 DEF FilesInv, Typed
<1>5. Tail(todo[t]) \in Looking(FromRaw, edit[t]) /\ Tail(todo[t]) \in Seq(Steps)
  BY <1>1, LookupFollows
<1>6. /\ symbols' = [symbols EXCEPT ![t] = symbols[t]]
      /\ symbols[t] \in Contents \cup {Empty, None}
  BY <1>3 DEF FilesInv, Typed
<1>7. /\ b.contents \in seen[t] \cup {None}
      /\ IF b.inLs
         THEN /\ b.contents # None /\ doc' \in seen[t]
              /\ t \notin disturbed' => ~b.stale /\ doc' = b.contents
         ELSE doc' = None
      /\ \A entry \in {raw', high'} :
            \/ entry \in {raw, high}
            \/ entry \in Entries /\ (entry[2] \in {entry[1], Empty} \/ entry \in mixed')
      /\ mixed \subseteq mixed'
  BY <1>2, <1>3, <1>4
<1>8. /\ todo'[t] = Tail(todo[t]) /\ Held(t, 1)' /\ Viewed(t)' /\ buf'[own'[t]] = b
      /\ Typed(t)' /\ Observed(t)' /\ CacheSound' /\ FreshSymbols' /\ EditsLand'
  <2>1. UNCHANGED <<disk, open, rawSaved, highSaved, own, edit, text, seen, done, broken, lost>>
    BY <1>3
  <2>2. buf' = [buf EXCEPT ![own[t]] = b] /\ todo' = [todo EXCEPT ![t] = Tail(todo[t])]
    BY <1>3
  <2>3. b \in Buffers /\ b.refs = 1 /\ b.hash \in {b.contents, None}
    BY <1>2
  <2>4. QED
    BY <1>1, <1>5, <1>6, <1>7, <2>1, <2>2, <2>3, LookupGoesOn
<1>9. AtLookup(t)'
  BY <1>2, <1>3, <1>5, <1>8 DEF AtLookup
<1>10. QED
  BY <1>8, <1>9 DEF FilesInv

(* A raw entry is taken on the same condition.                             *)
LEMMA CheckRawCacheKeeps ==
  ASSUME NEW t, Threads = {t}, FilesInv(t), CheckRawCache(t)
  PROVE  FilesInv(t)'
<1>1. /\ todo[t] \in Looking(FromRaw, edit[t]) /\ todo[t] # <<>> /\ Held(t, 1) /\ Viewed(t)
      /\ buf[own[t]].inLs /\ ~At(t, "rewrite")
  BY Located DEF CheckRawCache, At
<1>2. UNCHANGED <<disk, open, doc, ready, cacheVars, own, edit, text, history>>
  BY DEF CheckRawCache
<1> DEFINE b == IF raw = None THEN buf[own[t]] ELSE Hashed(buf[own[t]])
<1>3. /\ b \in Buffers /\ b.refs = 1 /\ b.inLs
      /\ b.contents \in seen[t] \cup {None} /\ b.hash \in {b.contents, None}
      /\ IF b.inLs
         THEN /\ b.contents # None /\ doc' \in seen[t]
              /\ t \notin disturbed' => ~b.stale /\ doc' = b.contents
         ELSE doc' = None
      /\ raw # None /\ raw[1] = b.hash =>
            /\ b.contents \in seen[t] /\ raw[2] \in Contents \cup {Empty}
            /\ Sound(<<b.contents, raw[2]>>)
  BY <1>1, <1>2, ProbeFinds
<1>4. /\ buf' = [buf EXCEPT ![own[t]] = b]
      /\ \/ /\ raw # None /\ raw[1] = b.hash /\ symbols' = [symbols EXCEPT ![t] = raw[2]]
            /\ todo' = [todo EXCEPT ![t] = Tail(Tail(Tail(@)))]
         \/ symbols' = symbols /\ Advance(t)
  BY DEF CheckRawCache, Probe
<1> HIDE DEF b
<1>5. CASE /\ raw # None /\ raw[1] = b.hash /\ symbols' = [symbols EXCEPT ![t] = raw[2]]
           /\ todo' = [todo EXCEPT ![t] = Tail(Tail(Tail(@)))]
  <2>1. /\ Tail(Tail(Tail(todo[t]))) \in Looking(FromBodies, edit[t])
        /\ Tail(Tail(Tail(todo[t]))) \in Seq(Steps)
    BY <1>1, LookupFollows
  <2> DEFINE q == Tail(Tail(Tail(todo[t])))
             s == raw[2]
  <2>2. todo' = [todo EXCEPT ![t] = q] /\ q \in Seq(Steps)
    BY <1>5, <2>1
  <2>3. /\ s \in Contents \cup {Empty, None} /\ symbols' = [symbols EXCEPT ![t] = s]
        /\ \E c \in seen[t] : Sound(<<c, s>>)
        /\ s # None /\ Sound(<<b.contents, s>>)
    BY <1>3, <1>5
  <2> HIDE DEF q, s
  <2>4. /\ todo'[t] = q /\ symbols'[t] = s /\ Held(t, 1)' /\ Viewed(t)' /\ buf'[own'[t]] = b
        /\ Typed(t)' /\ Observed(t)' /\ CacheSound' /\ FreshSymbols' /\ EditsLand'
    BY <1>1, <1>2, <1>3, <1>4, <2>2, <2>3, LookupGoesOn
  <2>5. Answered(t)'
    BY <1>2, <2>3, <2>4 DEF Answered, Sound
  <2>6. AtLookup(t)'
    BY <1>2, <1>3, <2>1, <2>4, <2>5 DEF AtLookup, q
  <2>7. QED
    BY <2>4, <2>6 DEF FilesInv
<1>6. CASE symbols' = symbols /\ Advance(t)
  <2>1. todo' = [todo EXCEPT ![t] = Tail(todo[t])]
    BY <1>6 DEF Advance
  <2>2. Tail(todo[t]) \in Looking(FromAsk, edit[t]) /\ Tail(todo[t]) \in Seq(Steps)
    BY <1>1, LookupFollows
  <2>3. /\ symbols' = [symbols EXCEPT ![t] = symbols[t]]
        /\ symbols[t] \in Contents \cup {Empty, None}
    BY <1>6 DEF FilesInv, Typed
  <2>4. /\ todo'[t] = Tail(todo[t]) /\ Held(t, 1)' /\ Viewed(t)' /\ buf'[own'[t]] = b
        /\ Typed(t)' /\ Observed(t)' /\ CacheSound' /\ FreshSymbols' /\ EditsLand'
    BY <1>1, <1>2, <1>3, <1>4, <2>1, <2>2, <2>3, LookupGoesOn
  <2>5. AtLookup(t)'
    BY <1>2, <1>3, <2>2, <2>4 DEF AtLookup
  <2>6. QED
    BY <2>4, <2>5 DEF FilesInv
<1>7. QED
  BY <1>4, <1>5, <1>6

(* The server answers from its document, which the file once was, and      *)
(* which the buffer is unless others wrote.                                *)
LEMMA AnswerKeeps ==
  ASSUME NEW t, Threads = {t}, FilesInv(t), Answer(t)
  PROVE  FilesInv(t)'
<1> DEFINE b == buf[own[t]]
<1>1. /\ todo[t] \in Looking(FromAsk, edit[t]) /\ todo[t] # <<>> /\ ~At(t, "rewrite")
      /\ Held(t, 1) /\ Viewed(t) /\ b.inLs
  BY Located DEF Answer, At
<1>2. UNCHANGED <<disk, buf, open, doc, ready, cacheVars, own, edit, text, history>>
  BY DEF Answer
<1>3. /\ b \in Buffers /\ b.refs = 1 /\ buf' = [buf EXCEPT ![own[t]] = b]
      /\ b.contents \in seen[t] \cup {None} /\ b.hash \in {b.contents, None}
      /\ b.contents # None /\ doc' \in seen[t] /\ doc \in Contents
      /\ t \notin disturbed' => ~b.stale /\ doc' = b.contents
  BY <1>1, <1>2 DEF Held, Sole, Viewed, FilesInv, Typed
<1>4. \E s \in {doc, Empty}, q \in Looking(FromStore, edit[t]) \cup Looking(FromClose, edit[t]) :
         symbols' = [symbols EXCEPT ![t] = s] /\ todo' = [todo EXCEPT ![t] = q]
  <2>1. PICK answer \in {doc, Empty, None} :
           /\ symbols' = [symbols EXCEPT ![t] = IF answer = None THEN Empty ELSE answer]
           /\ IF answer = None THEN SkipToClose(t) ELSE Advance(t)
    BY DEF Answer
  <2>2. CASE answer = None
    <3>1. PICK q \in Looking(FromClose, edit[t]) : todo' = [todo EXCEPT ![t] = q]
      BY <1>1, <2>1, <2>2, LookupSkipped DEF SkipToClose, FilesInv, Typed
    <3>2. QED
      BY <2>1, <2>2, <3>1
  <2>3. CASE answer # None
    <3>1. Tail(todo[t]) \in Looking(FromStore, edit[t])
      BY <1>1, LookupFollows
    <3>2. QED
      BY <1>1, <2>1, <2>3, <3>1 DEF Advance
  <2>4. QED
    BY <2>2, <2>3
<1>5. PICK s \in {doc, Empty}, q \in Looking(FromStore, edit[t]) \cup Looking(FromClose, edit[t]) :
         symbols' = [symbols EXCEPT ![t] = s] /\ todo' = [todo EXCEPT ![t] = q]
  BY <1>4
<1>6. q \in Seq(Steps)
  BY LookupFollows
<1>7. /\ s \in Contents \cup {Empty, None} /\ s # None
      /\ s = Empty \/ \E c \in seen[t] : Sound(<<c, s>>)
      /\ t \notin disturbed' => Sound(<<b.contents, s>>)
  BY <1>2, <1>3 DEF Sound
<1> HIDE DEF b
<1>8. /\ b.contents \in seen[t] \cup {None}
      /\ IF b.inLs
         THEN /\ b.contents # None /\ doc' \in seen[t]
              /\ t \notin disturbed' => ~b.stale /\ doc' = b.contents
         ELSE doc' = None
      /\ \A entry \in {raw', high'} :
            \/ entry \in {raw, high}
            \/ entry \in Entries /\ (entry[2] \in {entry[1], Empty} \/ entry \in mixed')
      /\ mixed \subseteq mixed'
  BY <1>1, <1>2, <1>3
<1>9. /\ todo'[t] = q /\ symbols'[t] = s /\ Held(t, 1)' /\ Viewed(t)' /\ buf'[own'[t]] = b
      /\ Typed(t)' /\ Observed(t)' /\ CacheSound' /\ FreshSymbols' /\ EditsLand'
  <2>1. s \in {symbols[t], Empty} \/ \E c \in seen[t] : Sound(<<c, s>>)
    BY <1>7
  <2>2. UNCHANGED <<disk, open, rawSaved, highSaved, own, edit, text, seen, done, broken, lost>>
    BY <1>2
  <2>3. s \in Contents \cup {Empty, None} /\ symbols' = [symbols EXCEPT ![t] = s]
        /\ todo' = [todo EXCEPT ![t] = q]
    BY <1>5, <1>7
  <2>4. QED
    BY <1>1, <1>3, <1>6, <1>8, <2>1, <2>2, <2>3, LookupGoesOn
<1>10. Answered(t)'
  BY <1>2, <1>7, <1>9 DEF Answered, Sound
<1>11. AtLookup(t)'
  BY <1>1, <1>2, <1>5, <1>9, <1>10 DEF AtLookup
<1>12. QED
  BY <1>9, <1>11 DEF FilesInv

(* The answer is stored under the hash of the contents it was computed     *)
(* from, or others wrote and the entry is remembered.                      *)
LEMMA StoreRawKeeps ==
  ASSUME NEW t, Threads = {t}, FilesInv(t), StoreRaw(t)
  PROVE  FilesInv(t)'
<1> DEFINE a == buf[own[t]]
           b == IF symbols[t] = Empty THEN a ELSE Hashed(a)
<1>1. /\ todo[t] \in Looking(FromStore, edit[t]) /\ todo[t] # <<>> /\ ~At(t, "rewrite")
      /\ Held(t, 1) /\ Viewed(t) /\ Answered(t) /\ a.inLs
  BY Located DEF StoreRaw, At
<1>2. /\ UNCHANGED <<disk, open, doc, ready, high, rawSaved, highSaved, own, edit, symbols,
                     text, seen, unready, done, broken, disturbed, lost>>
      /\ todo' = [todo EXCEPT ![t] = Tail(todo[t])]
      /\ buf' = [buf EXCEPT ![own[t]] = b]
      /\ \/ raw' = raw /\ mixed' = mixed
         \/ /\ symbols[t] # Empty /\ raw' = <<b.hash, symbols[t]>>
            /\ mixed' = IF t \in disturbed THEN mixed \cup {raw'} ELSE mixed
  BY <1>1 DEF StoreRaw, Advance, Remember, FilesInv, Typed, Held, Sole
<1>3. /\ a \in Buffers /\ a.refs = 1 /\ seen[t] \in SUBSET Contents /\ disk \in seen[t]
      /\ a.contents \in seen[t] /\ a.contents # None /\ a.hash \in {a.contents, None}
      /\ doc \in seen[t] /\ (t \notin disturbed => ~a.stale /\ doc = a.contents)
      /\ symbols[t] \in Contents \cup {Empty}
      /\ t \notin disturbed => Sound(<<a.contents, symbols[t]>>)
  BY <1>1 DEF Held, Sole, Viewed, Answered, FilesInv, Typed, Observed
<1> HIDE DEF a
<1>4. /\ b \in Buffers /\ b.refs = 1 /\ b.inLs
      /\ b.contents \in seen[t] \cup {None} /\ b.hash \in {b.contents, None}
      /\ b.contents # None /\ doc' \in seen[t]
      /\ t \notin disturbed' => ~b.stale /\ doc' = b.contents /\ b.contents = a.contents
      /\ symbols[t] # Empty => b.hash \in Contents /\ b.hash = b.contents
  BY <1>1, <1>2, <1>3, Buffered
<1> HIDE DEF b
<1>5. \/ raw' = raw
      \/ raw' \in Entries /\ (raw'[2] \in {raw'[1], Empty} \/ raw' \in mixed')
  BY <1>2, <1>3, <1>4 DEF Entries, Sound
<1>6. mixed \subseteq mixed'
  BY <1>2
<1>7. Tail(todo[t]) \in Looking(FromBodies, edit[t]) /\ Tail(todo[t]) \in Seq(Steps)
  BY <1>1, LookupFollows
<1>8. /\ symbols' = [symbols EXCEPT ![t] = symbols[t]]
      /\ symbols[t] \in Contents \cup {Empty, None}
  BY <1>2 DEF FilesInv, Typed
<1>9. /\ todo'[t] = Tail(todo[t]) /\ symbols'[t] = symbols[t]
      /\ Held(t, 1)' /\ Viewed(t)' /\ buf'[own'[t]] = b
      /\ Typed(t)' /\ Observed(t)' /\ CacheSound' /\ FreshSymbols' /\ EditsLand'
  BY <1>1, <1>2, <1>4, <1>5, <1>6, <1>7, <1>8, LookupGoesOn
<1>10. Answered(t)'
  BY <1>2, <1>3, <1>4, <1>6, <1>9 DEF Answered, Sound
<1>11. AtLookup(t)'
  BY <1>2, <1>4, <1>7, <1>9, <1>10 DEF AtLookup
<1>12. QED
  BY <1>9, <1>11 DEF FilesInv

(* And so are the symbols made of it.                                      *)
LEMMA StoreSymbolsKeeps ==
  ASSUME NEW t, Threads = {t}, FilesInv(t), StoreSymbols(t)
  PROVE  FilesInv(t)'
<1> DEFINE a == buf[own[t]]
           b == Hashed(Read(a))
<1>1. /\ todo[t] \in Looking(FromBodies, edit[t]) /\ todo[t] # <<>> /\ ~At(t, "rewrite")
      /\ Held(t, 1) /\ Viewed(t) /\ Answered(t) /\ a.inLs
  BY Located DEF StoreSymbols, At
<1>2. /\ UNCHANGED <<disk, open, doc, ready, raw, rawSaved, highSaved, own, edit, symbols,
                     text, seen, unready, done, broken, disturbed, lost>>
      /\ todo' = [todo EXCEPT ![t] = Tail(todo[t])]
      /\ buf' = [buf EXCEPT ![own[t]] = b] /\ high' = <<b.hash, symbols[t]>>
      /\ mixed' = IF t \in disturbed THEN mixed \cup {high'} ELSE mixed
  BY DEF StoreSymbols, Advance, Remember
<1>3. /\ a \in Buffers /\ a.refs = 1 /\ seen[t] \in SUBSET Contents /\ disk \in seen[t]
      /\ a.contents \in seen[t] /\ a.contents # None /\ a.hash \in {a.contents, None}
      /\ doc \in seen[t] /\ (t \notin disturbed => ~a.stale /\ doc = a.contents)
      /\ symbols[t] \in Contents \cup {Empty}
      /\ t \notin disturbed => Sound(<<a.contents, symbols[t]>>)
  BY <1>1 DEF Held, Sole, Viewed, Answered, FilesInv, Typed, Observed
<1> HIDE DEF a
<1>4. /\ b \in Buffers /\ b.refs = 1 /\ b.inLs
      /\ b.contents \in seen[t] \cup {None} /\ b.hash \in {b.contents, None}
      /\ b.contents # None /\ doc' \in seen[t]
      /\ t \notin disturbed' => ~b.stale /\ doc' = b.contents /\ b.contents = a.contents
      /\ b.hash \in Contents /\ b.hash = b.contents
  <2> DEFINE c == Read(a)
  <2>1. /\ c \in Buffers /\ c.refs = 1 /\ c.inLs /\ ~c.stale /\ c.contents \in seen[t]
        /\ c.contents # None /\ c.hash \in {c.contents, None}
        /\ ~a.stale => c.contents = a.contents
    BY <1>1, <1>3, Buffered
  <2> HIDE DEF c
  <2>2. /\ Hashed(c) \in Buffers /\ Hashed(c).refs = 1 /\ Hashed(c).inLs
        /\ Hashed(c).hash = Hashed(c).contents /\ ~Hashed(c).stale
        /\ Hashed(c).contents = c.contents
    BY <1>3, <2>1, Buffered
  <2>3. QED
    BY <1>2, <1>3, <2>1, <2>2 DEF c
<1> HIDE DEF b
<1>5. high' \in Entries /\ (high'[2] \in {high'[1], Empty} \/ high' \in mixed')
  BY <1>2, <1>3, <1>4 DEF Entries, Sound
<1>6. mixed \subseteq mixed'
  BY <1>2
<1>7. Tail(todo[t]) \in Looking(FromClose, edit[t]) /\ Tail(todo[t]) \in Seq(Steps)
  BY <1>1, LookupFollows
<1>8. /\ symbols' = [symbols EXCEPT ![t] = symbols[t]]
      /\ symbols[t] \in Contents \cup {Empty, None}
  BY <1>2 DEF FilesInv, Typed
<1>9. /\ b.contents \in seen[t] \cup {None}
      /\ IF b.inLs
         THEN /\ b.contents # None /\ doc' \in seen[t]
              /\ t \notin disturbed' => ~b.stale /\ doc' = b.contents
         ELSE doc' = None
      /\ \A entry \in {raw', high'} :
            \/ entry \in {raw, high}
            \/ entry \in Entries /\ (entry[2] \in {entry[1], Empty} \/ entry \in mixed')
      /\ mixed \subseteq mixed'
  BY <1>2, <1>4, <1>5, <1>6
<1>10. /\ todo'[t] = Tail(todo[t]) /\ Held(t, 1)'
       /\ Typed(t)' /\ Observed(t)' /\ CacheSound' /\ FreshSymbols' /\ EditsLand'
  <2>1. UNCHANGED <<disk, open, rawSaved, highSaved, own, edit, text, seen, done, broken, lost>>
    BY <1>2
  <2>2. buf' = [buf EXCEPT ![own[t]] = b] /\ todo' = [todo EXCEPT ![t] = Tail(todo[t])]
    BY <1>2
  <2>3. QED
    BY <1>1, <1>4, <1>7, <1>8, <1>9, <2>1, <2>2, LookupGoesOn
<1>11. AtLookup(t)'
  BY <1>2, <1>7, <1>10 DEF AtLookup
<1>12. QED
  BY <1>10, <1>11 DEF FilesInv

(* A failed request leaves only the buffers to close.                      *)
LEMMA RequestFailsKeeps ==
  ASSUME NEW t, Threads = {t}, FilesInv(t), RequestFails(t)
  PROVE  FilesInv(t)'
<1>1. At(t, "ask") /\ todo[t] # <<>> /\ Held(t, 1)
  BY Located DEF RequestFails, At
<1>2. /\ UNCHANGED <<disk, buf, open, doc, ready, cacheVars, own, edit, symbols, text, history>>
      /\ todo' = [todo EXCEPT ![t] = Leaving(1)]
  BY LeavingFollows DEF RequestFails
<1>3. todo'[t] = Leaving(1) /\ todo' \in [Threads -> Seq(Steps)]
  BY <1>2, LeavingFollows DEF FilesInv, Typed
<1>4. Typed(t)' /\ Observed(t)'
  BY <1>1, <1>2, <1>3 DEF FilesInv, Typed, Observed
<1>5. AtEnd(t)'
  BY <1>1, <1>2, <1>3 DEF AtEnd, Held, Sole
<1>6. CacheSound' /\ FreshSymbols'
  BY <1>2, CachesStay
<1>7. EditsLand'
  BY <1>1, <1>2, FileStays DEF At
<1>8. QED
  BY <1>4, <1>5, <1>6, <1>7 DEF FilesInv

-----------------------------------------------------------------------------
(* The edit.                                                               *)

(* Reading the contents for an edit: they keep what they had to keep.      *)
LEMMA CarriedOn ==
  ASSUME NEW t, Threads = {t}, FilesInv(t), ~At(t, "rewrite"),
         NEW n, NEW added, Carries(t, n, added)
  PROVE  LET b == Read(buf[own[t]]) IN
         /\ b \in Buffers /\ b.refs = n /\ b.inLs /\ ~b.stale /\ b.contents \in Contents
         /\ Kept(b.contents, {edit[t]}) /\ (added \subseteq b.contents \/ edit[t] \in lost)
         /\ t \notin disturbed => doc = b.contents
<1> DEFINE a == buf[own[t]]
           b == Read(a)
<1>1. /\ a \in Buffers /\ a.refs = n /\ a.inLs /\ a.contents \in Contents /\ a.contents # None
      /\ Kept(a.contents, {edit[t]}) /\ (added \subseteq a.contents \/ edit[t] \in lost)
      /\ a.stale => edit[t] \in lost /\ t \in disturbed
      /\ t \notin disturbed => doc = a.contents
  BY DEF Carries, Carrying, Held, Sole
<1>2. disk \in Contents /\ Kept(disk, {edit[t]})
  <2>1. Kept(disk, {})
    BY FileKept
  <2>2. QED
    BY <2>1 DEF FilesInv, Typed, Kept
<1> HIDE DEF a
<1>3. /\ b \in Buffers /\ b.refs = a.refs /\ b.inLs = a.inLs /\ ~b.stale
      /\ b.contents = IF a.stale THEN disk ELSE a.contents
  BY <1>1, <1>2 DEF Read, Buffers
<1> HIDE DEF b
<1>4. CASE a.stale
  BY <1>1, <1>2, <1>3, <1>4 DEF a, b
<1>5. CASE ~a.stale
  BY <1>1, <1>2, <1>3, <1>5 DEF a, b
<1>6. QED
  BY <1>4, <1>5

(* A change of the buffer, which the server is told.                       *)
LEMMA ChangeMakes ==
  ASSUME NEW t, Threads = {t}, FilesInv(t), ~At(t, "rewrite"), NEW n \in {1, 2},
         NEW added \in SUBSET Halves(edit[t]), Carries(t, n, added),
         NEW half \in {"deletion", "insertion"}, NEW step, Change(t, step, half)
  PROVE  /\ todo[t] # <<>> /\ todo' = [todo EXCEPT ![t] = Tail(todo[t])]
         /\ Carries(t, n, added \cup {<<edit[t], half>>})'
         /\ buf' \in [Bufs -> Buffers \cup {None}] /\ doc' \in Contents
         /\ UNCHANGED <<disk, open, ready, cacheVars, own, edit, symbols, text, history>>
<1> DEFINE a == Read(buf[own[t]])
           b == [a EXCEPT !.contents = @ \cup {<<edit[t], half>>}, !.hash = None]
<1>1. /\ open = own[t] /\ own[t] \in Bufs /\ open # None /\ edit[t] \in Edits /\ doc \in Contents
      /\ doc # None /\ \A x \in Bufs : x # own[t] => buf[x] = None
  BY DEF Carries, Carrying, Held, Sole, FilesInv, Typed
<1>2. /\ a \in Buffers /\ a.refs = n /\ a.inLs /\ ~a.stale /\ a.contents \in Contents
      /\ Kept(a.contents, {edit[t]}) /\ (added \subseteq a.contents \/ edit[t] \in lost)
      /\ t \notin disturbed => doc = a.contents
  BY CarriedOn
<1>3. /\ todo[t] # <<>> /\ todo' = [todo EXCEPT ![t] = Tail(todo[t])]
      /\ buf' = [buf EXCEPT ![own[t]] = b]
      /\ doc' = doc \cup {<<edit[t], half>>}
      /\ UNCHANGED <<disk, open, ready, cacheVars, own, edit, symbols, text, history>>
  BY <1>1 DEF Change, At, Advance
<1> HIDE DEF a
<1> DEFINE c == a.contents \cup {<<edit[t], half>>}
<1>4. doc' \in Contents /\ c \in Contents
  BY <1>1, <1>2, <1>3 DEF Contents, Halves
<1>5. /\ b \in Buffers /\ b.refs = n /\ b.inLs /\ ~b.stale /\ b.contents = c
  BY <1>2, <1>4 DEF Buffers
<1>6. Kept(c, {edit[t]})
  <2>1. \A e \in Edits : e # edit[t] => Halves(e) \cap {<<edit[t], half>>} = {}
    BY DEF Halves
  <2>2. \A e \in Edits \ (lost \cup {edit[t]}) : Halves(e) \cap c = Halves(e) \cap a.contents
    BY <2>1
  <2>3. a.contents \subseteq c
    OBVIOUS
  <2> HIDE DEF c
  <2>4. QED
    BY <1>2, <2>2, <2>3 DEF Kept
<1>7. added \cup {<<edit[t], half>>} \subseteq c \/ edit[t] \in lost
  BY <1>2
<1>8. t \notin disturbed => doc' = c
  BY <1>2, <1>3
<1> HIDE DEF b, c
<1>9. /\ buf' \in [Bufs -> Buffers \cup {None}] /\ buf'[own[t]] = b
      /\ \A x \in Bufs : x # own[t] => buf'[x] = None
  BY <1>1, <1>3, <1>5 DEF FilesInv, Typed
<1>10. Held(t, n)'
  BY <1>1, <1>3, <1>4, <1>5, <1>8, <1>9 DEF Held, Sole
<1>11. Carrying(t, added \cup {<<edit[t], half>>})'
  <2>1. Kept(buf[own[t]].contents, {edit[t]})'
    BY <1>3, <1>5, <1>6, <1>9 DEF Kept
  <2>2. QED
    BY <1>1, <1>3, <1>4, <1>5, <1>7, <1>9, <2>1 DEF Carrying
<1>12. QED
  BY <1>3, <1>4, <1>9, <1>10, <1>11 DEF Carries

(* What remains to be shown of a step of an edit.                          *)
LEMMA EditGoesOn ==
  ASSUME NEW t, Threads = {t}, FilesInv(t), todo[t] # <<>>, ~At(t, "rewrite"), NEW q \in Seq(Steps),
         todo' = [todo EXCEPT ![t] = q], buf' \in [Bufs -> Buffers \cup {None}],
         doc' \in Contents \cup {None}, text' \in [Threads -> Contents \cup {None}],
         UNCHANGED <<disk, open, ready, cacheVars, own, edit, symbols, history>>
  PROVE  /\ todo'[t] = q /\ Typed(t)' /\ Observed(t)'
         /\ CacheSound' /\ FreshSymbols' /\ EditsLand'
<1>1. todo'[t] = q /\ todo' \in [Threads -> Seq(Steps)]
  BY DEF FilesInv, Typed
<1>2. Typed(t)' /\ Observed(t)'
  BY <1>1 DEF FilesInv, Typed, Observed
<1>3. CacheSound' /\ FreshSymbols' /\ EditsLand'
  BY CachesStay, FileStays
<1>4. QED
  BY <1>1, <1>2, <1>3

(* The first half of a replacement.                                        *)
LEMMA DeleteTextKeeps ==
  ASSUME NEW t, Threads = {t}, FilesInv(t), DeleteText(t)
  PROVE  FilesInv(t)'
<1>1. At(t, "delete") /\ ~At(t, "rewrite")
  BY DEF DeleteText, Change, At
<1>2. ASSUME NEW n \in {1, 2}, NEW q, NEW r \in Seq(Steps), Carries(t, n, {}),
             todo[t] = q, Tail(q) = r
      PROVE  /\ todo'[t] = r /\ Carries(t, n, {<<edit[t], "deletion">>})' /\ edit' = edit
             /\ Typed(t)' /\ Observed(t)' /\ CacheSound' /\ FreshSymbols' /\ EditsLand'
  <2>1. Change(t, "delete", "deletion")
    BY DEF DeleteText
  <2>2. {} \cup {<<edit[t], "deletion">>} = {<<edit[t], "deletion">>}
    OBVIOUS
  <2>3. /\ todo[t] # <<>> /\ todo' = [todo EXCEPT ![t] = r]
        /\ Carries(t, n, {} \cup {<<edit[t], "deletion">>})'
        /\ buf' \in [Bufs -> Buffers \cup {None}] /\ doc' \in Contents
        /\ UNCHANGED <<disk, open, ready, cacheVars, own, edit, symbols, text, history>>
    BY <1>1, <1>2, <2>1, ChangeMakes DEF Halves
  <2>4. text' \in [Threads -> Contents \cup {None}]
    BY <2>3 DEF FilesInv, Typed
  <2>5. QED
    BY <1>1, <1>2, <2>2, <2>3, <2>4, EditGoesOn
<1>3. CASE todo[t] = Replace2 /\ Carries(t, 1, {})
  <2>1. /\ todo'[t] = Replace3 /\ Carries(t, 1, {<<edit[t], "deletion">>})' /\ edit' = edit
        /\ Typed(t)' /\ Observed(t)' /\ CacheSound' /\ FreshSymbols' /\ EditsLand'
    BY <1>2, <1>3, EditsFollow, EditTypes
  <2>2. AtEdit(t)'
    BY <2>1 DEF AtEdit
  <2>3. QED
    BY <2>1, <2>2 DEF FilesInv
<1>4. CASE todo[t] = Rename3 /\ Carries(t, 2, {})
  <2>1. /\ todo'[t] = Rename4 /\ Carries(t, 2, {<<edit[t], "deletion">>})' /\ edit' = edit
        /\ Typed(t)' /\ Observed(t)' /\ CacheSound' /\ FreshSymbols' /\ EditsLand'
    BY <1>2, <1>4, EditsFollow, EditTypes
  <2>2. AtEdit(t)'
    BY <2>1 DEF AtEdit
  <2>3. QED
    BY <2>1, <2>2 DEF FilesInv
<1>5. QED
  BY <1>1, <1>3, <1>4, Located

(* The second half, or the whole of an insertion.                          *)
LEMMA InsertTextKeeps ==
  ASSUME NEW t, Threads = {t}, FilesInv(t), InsertText(t)
  PROVE  FilesInv(t)'
<1>1. At(t, "insert") /\ ~At(t, "rewrite")
  BY DEF InsertText, Change, At
<1>2. ASSUME NEW n \in {1, 2}, NEW q, NEW r \in Seq(Steps),
             Carries(t, n, {<<edit[t], "deletion">>}), todo[t] = q, Tail(q) = r
      PROVE  /\ todo'[t] = r /\ Carries(t, n, Halves(edit[t]))' /\ edit' = edit
             /\ Typed(t)' /\ Observed(t)' /\ CacheSound' /\ FreshSymbols' /\ EditsLand'
  <2>1. Change(t, "insert", "insertion")
    BY DEF InsertText
  <2>2. {<<edit[t], "deletion">>} \cup {<<edit[t], "insertion">>} = Halves(edit[t])
    BY DEF Halves
  <2>3. /\ todo[t] # <<>> /\ todo' = [todo EXCEPT ![t] = r]
        /\ Carries(t, n, {<<edit[t], "deletion">>} \cup {<<edit[t], "insertion">>})'
        /\ buf' \in [Bufs -> Buffers \cup {None}] /\ doc' \in Contents
        /\ UNCHANGED <<disk, open, ready, cacheVars, own, edit, symbols, text, history>>
    BY <1>1, <1>2, <2>1, ChangeMakes DEF Halves
  <2>4. text' \in [Threads -> Contents \cup {None}]
    BY <2>3 DEF FilesInv, Typed
  <2>5. Carries(t, n, Halves(edit[t]))'
    BY <2>2, <2>3 DEF Halves
  <2>6. QED
    BY <1>1, <1>2, <2>3, <2>4, <2>5, EditGoesOn
<1>3. CASE todo[t] = Replace3 /\ Carries(t, 1, {<<edit[t], "deletion">>})
  <2>1. /\ todo'[t] = Edited /\ Carries(t, 1, Halves(edit[t]))' /\ edit' = edit
        /\ Typed(t)' /\ Observed(t)' /\ CacheSound' /\ FreshSymbols' /\ EditsLand'
    BY <1>2, <1>3, EditsFollow, EditTypes
  <2>2. AtEdit(t)'
    BY <2>1 DEF AtEdit
  <2>3. QED
    BY <2>1, <2>2 DEF FilesInv
<1>4. CASE todo[t] = Rename4 /\ Carries(t, 2, {<<edit[t], "deletion">>})
  <2>1. /\ todo'[t] = Rename5 /\ Carries(t, 2, Halves(edit[t]))' /\ edit' = edit
        /\ Typed(t)' /\ Observed(t)' /\ CacheSound' /\ FreshSymbols' /\ EditsLand'
    BY <1>2, <1>4, EditsFollow, EditTypes
  <2>2. AtEdit(t)'
    BY <2>1 DEF AtEdit
  <2>3. QED
    BY <2>1, <2>2 DEF FilesInv
<1>5. QED
  BY <1>1, <1>3, <1>4, Located

(* An exception leaves as many contexts as the buffer has references.      *)
LEMMA ChangeFailsKeeps ==
  ASSUME NEW t, Threads = {t}, FilesInv(t), ChangeFails(t)
  PROVE  FilesInv(t)'
<1>1. PICK n \in {1, 2} :
         /\ Carries(t, n, {<<edit[t], "deletion">>}) /\ Cardinality(Contexts(t)) = n
         /\ todo[t] # <<>> /\ ~At(t, "rewrite")
  <2>1. \/ todo[t] = Replace3 /\ Carries(t, 1, {<<edit[t], "deletion">>})
        \/ todo[t] = Rename4 /\ Carries(t, 2, {<<edit[t], "deletion">>})
    BY Located DEF ChangeFails
  <2>2. todo[t] # <<>> /\ ~At(t, "rewrite")
    BY DEF ChangeFails, At
  <2>3. QED
    BY <2>1, <2>2, ContextsCounted
<1>2. /\ todo' = [todo EXCEPT ![t] = Leaving(n)]
      /\ UNCHANGED <<disk, buf, open, doc, ready, cacheVars, own, edit, symbols, text, history>>
  BY <1>1 DEF ChangeFails, Leaving
<1>3. Leaving(n) \in Seq(Steps)
  BY LeavingFollows
<1>4. /\ buf' \in [Bufs -> Buffers \cup {None}] /\ doc' \in Contents \cup {None}
      /\ text' \in [Threads -> Contents \cup {None}]
  BY <1>2 DEF FilesInv, Typed
<1>5. /\ todo'[t] = Leaving(n) /\ Typed(t)' /\ Observed(t)'
      /\ CacheSound' /\ FreshSymbols' /\ EditsLand'
  BY <1>1, <1>2, <1>3, <1>4, EditGoesOn
<1>6. AtEnd(t)'
  BY <1>1, <1>2, <1>5 DEF AtEnd, Carries, Held, Sole
<1>7. QED
  BY <1>5, <1>6 DEF FilesInv

(* What is read back is what the buffer has, or the file.                  *)
LEMMA GetContentsKeeps ==
  ASSUME NEW t, Threads = {t}, FilesInv(t), GetContents(t)
  PROVE  FilesInv(t)'
<1> DEFINE b == Read(buf[own[t]])
<1>1. todo[t] = Edited /\ Carries(t, 1, Halves(edit[t])) /\ todo[t] # <<>> /\ ~At(t, "rewrite")
  BY Located DEF GetContents, At
<1>2. /\ b \in Buffers /\ b.refs = 1 /\ b.inLs /\ ~b.stale /\ b.contents \in Contents
      /\ Kept(b.contents, {edit[t]}) /\ (Halves(edit[t]) \subseteq b.contents \/ edit[t] \in lost)
      /\ t \notin disturbed => doc = b.contents
  BY <1>1, CarriedOn
<1>3. /\ own[t] \in Bufs /\ open = own[t] /\ edit[t] \in Edits /\ doc \in Contents
      /\ \A x \in Bufs : x # own[t] => buf[x] = None
  BY <1>1 DEF Carries, Carrying, Held, Sole
<1>4. /\ buf' = [buf EXCEPT ![own[t]] = b] /\ text' = [text EXCEPT ![t] = b.contents]
      /\ todo' = [todo EXCEPT ![t] = Gotten]
      /\ UNCHANGED <<disk, open, doc, ready, cacheVars, own, edit, symbols, history>>
  BY <1>1, <1>3, EditsFollow DEF GetContents, Advance, FilesInv, Typed
<1> HIDE DEF b
<1>5. /\ buf' \in [Bufs -> Buffers \cup {None}] /\ buf'[own[t]] = b
      /\ \A x \in Bufs : x # own[t] => buf'[x] = None
      /\ doc' \in Contents \cup {None}
      /\ text' \in [Threads -> Contents \cup {None}] /\ text'[t] = b.contents
  BY <1>2, <1>3, <1>4 DEF FilesInv, Typed
<1>6. Gotten \in Seq(Steps)
  BY EditTypes
<1>7. /\ todo'[t] = Gotten /\ Typed(t)' /\ Observed(t)'
      /\ CacheSound' /\ FreshSymbols' /\ EditsLand'
  BY <1>1, <1>4, <1>5, <1>6, EditGoesOn
<1>8. Held(t, 1)'
  BY <1>2, <1>3, <1>4, <1>5 DEF Held, Sole
<1>9. Composed(t)'
  BY <1>2, <1>3, <1>4, <1>5 DEF Composed, Kept
<1>10. AtEdit(t)'
  BY <1>7, <1>8, <1>9 DEF AtEdit
<1>11. QED
  BY <1>7, <1>10 DEF FilesInv

(* The truncation: what is composed is still to be written.                *)
LEMMA TruncateKeeps ==
  ASSUME NEW t, Threads = {t}, FilesInv(t), Truncate(t)
  PROVE  FilesInv(t)'
<1>1. todo[t] = Gotten /\ Held(t, 1) /\ Composed(t) /\ todo[t] # <<>>
  BY Located DEF Truncate, At
<1>2. /\ disk' = {Cut} /\ buf' = Outdated /\ todo' = [todo EXCEPT ![t] = Cleared]
      /\ seen' = [u \in Threads |-> seen[u] \cup {disk'}]
      /\ UNCHANGED <<open, doc, ready, cacheVars, own, edit, symbols, text, done, broken,
                     disturbed, mixed, lost>>
  BY <1>1, EditsFollow DEF Truncate, Advance, FilesInv, Typed
<1>3. todo'[t] = Cleared /\ todo' \in [Threads -> Seq(Steps)] /\ disk' \in Contents
  BY <1>2, EditTypes DEF FilesInv, Typed, Contents
<1>4. Typed(t)' /\ Observed(t)' /\ Held(t, 1)'
  BY <1>1, <1>2, <1>3, OutdatedKeeps DEF FilesInv, Typed, Observed
<1>5. Composed(t)'
  BY <1>1, <1>2 DEF Composed, Kept
<1>6. AtEdit(t)'
  BY <1>2, <1>3, <1>4, <1>5 DEF AtEdit
<1>7. CacheSound' /\ FreshSymbols'
  BY <1>2 DEF FilesInv, CacheSound, FreshSymbols, Sound, Typed
<1>8. EditsLand'
  BY <1>3, EditsFollow DEF EditsLand, At
<1>9. QED
  BY <1>4, <1>6, <1>7, <1>8 DEF FilesInv

(* What is written has all that was to be kept, and the edit.              *)
LEMMA WriteTextKeeps ==
  ASSUME NEW t, Threads = {t}, FilesInv(t), WriteText(t)
  PROVE  FilesInv(t)'
<1>1. todo[t] = Cleared /\ Held(t, 1) /\ Composed(t) /\ todo[t] # <<>>
  BY Located DEF WriteText, At
<1>2. /\ disk' = text[t] /\ buf' = Outdated /\ todo' = [todo EXCEPT ![t] = Written]
      /\ text' = [text EXCEPT ![t] = None]
      /\ seen' = [u \in Threads |-> seen[u] \cup {disk'}]
      /\ UNCHANGED <<open, doc, ready, cacheVars, own, edit, symbols, done, broken,
                     disturbed, mixed, lost>>
  BY <1>1, EditsFollow DEF WriteText, Advance, FilesInv, Typed
<1>3. /\ todo'[t] = Written /\ todo' \in [Threads -> Seq(Steps)] /\ disk' \in Contents
      /\ text' \in [Threads -> Contents \cup {None}]
  BY <1>1, <1>2, EditTypes DEF FilesInv, Typed, Composed
<1>4. Typed(t)' /\ Observed(t)' /\ Held(t, 1)'
  BY <1>1, <1>2, <1>3, OutdatedKeeps DEF FilesInv, Typed, Observed
<1>5. AtEnd(t)'
  BY <1>1, <1>2, <1>3, <1>4 DEF AtEnd, Landed, Composed
<1>6. CacheSound' /\ FreshSymbols'
  BY <1>2 DEF FilesInv, CacheSound, FreshSymbols, Sound, Typed
<1>7. EditsLand'
  BY <1>1, <1>2 DEF Composed, EditsLand, Kept
<1>8. QED
  BY <1>4, <1>5, <1>6, <1>7 DEF FilesInv

(* A file that was truncated and not written has nothing by half.          *)
LEMMA CutShort ==
  ASSUME done' = done, lost' = lost \cup done, disk' = disk, disk \subseteq {Cut} \cup Writes
  PROVE  Kept(disk, {})'
BY DEF Kept

(* A save that fails leaves the file as it is, whole or truncated.         *)
LEMMA SaveFailsKeeps ==
  ASSUME NEW t, Threads = {t}, FilesInv(t), SaveFails(t)
  PROVE  FilesInv(t)'
<1>1. /\ Held(t, 1) /\ todo[t] # <<>>
      /\ At(t, "rewrite") => disk \subseteq {Cut} \cup Writes
  BY Located DEF SaveFails, At
<1>2. /\ todo' = [todo EXCEPT ![t] = Leaving(1)] /\ text' = [text EXCEPT ![t] = None]
      /\ lost' = IF At(t, "rewrite") THEN lost \cup done ELSE lost
      /\ UNCHANGED <<disk, buf, open, doc, ready, cacheVars, own, edit, symbols, seen, done,
                     broken, disturbed, mixed>>
  BY LeavingFollows DEF SaveFails
<1>3. /\ todo'[t] = Leaving(1) /\ todo' \in [Threads -> Seq(Steps)]
      /\ text' \in [Threads -> Contents \cup {None}]
  BY <1>2, LeavingFollows DEF FilesInv, Typed
<1>4. Typed(t)' /\ Observed(t)'
  BY <1>1, <1>2, <1>3 DEF FilesInv, Typed, Observed
<1>5. AtEnd(t)'
  BY <1>1, <1>2, <1>3 DEF AtEnd, Held, Sole
<1>6. CacheSound' /\ FreshSymbols'
  BY <1>2, CachesStay
<1>7. EditsLand'
  <2>1. CASE At(t, "rewrite")
    BY <1>1, <1>2, <2>1, CutShort DEF EditsLand
  <2>2. CASE ~At(t, "rewrite")
    BY <1>2, <2>2, FileStays
  <2>3. QED
    BY <2>1, <2>2
<1>8. QED
  BY <1>4, <1>5, <1>6, <1>7 DEF FilesInv

-----------------------------------------------------------------------------
(* The end of a call, the server, restarts and other writers.              *)

(* The caches are saved as they are; the edit counts as made.              *)
LEMMA SaveCachesKeeps ==
  ASSUME NEW t, Threads = {t}, FilesInv(t), SaveCaches(t)
  PROVE  FilesInv(t)'
<1>1. /\ todo[t] = Finished /\ NoBuffer(t) /\ (edit[t] # None => Landed(t))
      /\ todo[t] # <<>> /\ ~At(t, "rewrite")
  BY Located DEF SaveCaches, At
<1>2. /\ rawSaved' \in {raw, rawSaved} /\ highSaved' \in {high, highSaved}
      /\ done' = IF edit[t] = None THEN done ELSE done \cup {edit[t]}
      /\ todo' = [todo EXCEPT ![t] = <<>>] /\ edit' = [edit EXCEPT ![t] = None]
      /\ symbols' = [symbols EXCEPT ![t] = None] /\ seen' = [seen EXCEPT ![t] = {}]
      /\ UNCHANGED <<disk, buf, open, doc, ready, raw, high, own, text, broken, mixed, lost>>
  BY <1>1, EditsFollow DEF SaveCaches, Advance, FilesInv, Typed
<1>3. todo'[t] = <<>> /\ todo' \in [Threads -> Seq(Steps)]
  BY <1>2, EditTypes DEF FilesInv, Typed
<1>4. Typed(t)' /\ Observed(t)'
  BY <1>2, <1>3 DEF FilesInv, Typed, Observed
<1>5. AtEnd(t)'
  BY <1>1, <1>2, <1>3 DEF AtEnd, NoBuffer
<1>6. CacheSound' /\ FreshSymbols'
  BY <1>1, <1>2 DEF FilesInv, Typed, CacheSound, Sound, FreshSymbols
<1>7. EditsLand'
  <2>1. Kept(disk, {})
    BY <1>1, FileKept
  <2>2. Kept(disk, {})'
    BY <1>1, <1>2, <2>1 DEF Kept, Landed
  <2>3. QED
    BY <2>2 DEF EditsLand
<1>8. QED
  BY <1>4, <1>5, <1>6, <1>7 DEF FilesInv

(* A restart drops every buffer and takes the caches from disk; the file   *)
(* stays as the kill found it.                                             *)
LEMMA RestartKeeps ==
  ASSUME NEW t, Threads = {t}, FilesInv(t), Restart
  PROVE  FilesInv(t)'
<1>1. todo'[t] = <<>> /\ todo' \in [Threads -> Seq(Steps)]
  BY EditTypes DEF Restart
<1>2. Typed(t)' /\ Observed(t)'
  BY <1>1 DEF FilesInv, Typed, Observed, Restart
<1>3. AtEnd(t)'
  BY <1>1 DEF AtEnd, NoBuffer, Restart
<1>4. CacheSound' /\ FreshSymbols'
  BY DEF FilesInv, CacheSound, Sound, FreshSymbols, Restart
<1>5. EditsLand'
  <2>1. /\ UNCHANGED <<disk, done>>
        /\ lost' = IF At(t, "rewrite") THEN lost \cup done ELSE lost
    BY DEF Restart
  <2>2. CASE At(t, "rewrite")
    BY <2>1, <2>2, CutShort, Located DEF EditsLand
  <2>3. CASE ~At(t, "rewrite")
    BY <2>1, <2>3, FileStays
  <2>4. QED
    BY <2>2, <2>3
<1>6. QED
  BY <1>2, <1>3, <1>4, <1>5 DEF FilesInv

(* A write of others makes buffers older than the file; while the server   *)
(* has the document the thread is disturbed, and while an edit is under    *)
(* way the edit and the write may be lost.                                 *)
LEMMA OthersWriteKeeps ==
  ASSUME NEW t, Threads = {t}, FilesInv(t), NEW w \in Writes, OthersWrite(w)
  PROVE  FilesInv(t)'
<1>1. /\ disk' = disk \cup {w} /\ done' = done \cup {w}
      /\ t \in disturbed => t \in disturbed'
      /\ doc # None => t \in disturbed'
      /\ UNCHANGED <<open, doc, ready, cacheVars, callVars, broken, mixed>>
  BY DEF OthersWrite
<1>2. /\ lost \subseteq lost' /\ done' \ lost' \subseteq (done \ lost) \cup {w}
      /\ todo[t] # <<>> /\ edit[t] \in Edits => {edit[t], w} \subseteq lost'
  BY DEF OthersWrite, Unfinished
<1>3. /\ seen' \in [Threads -> SUBSET Contents] /\ seen[t] \subseteq seen'[t]
      /\ todo[t] # <<>> => disk' \in seen'[t]
      /\ disk' \in Contents
  <2>1. disk' \in Contents
    BY <1>1 DEF FilesInv, Typed, Contents
  <2>2. QED
    BY <2>1 DEF OthersWrite, FilesInv, Typed
<1>4. /\ buf' \in [Bufs -> Buffers \cup {None}]
      /\ \A b \in Bufs : buf[b] = None => buf'[b] = None
      /\ \A b \in Bufs : buf[b] \in Buffers =>
            /\ buf'[b] \in Buffers /\ buf'[b].refs = buf[b].refs /\ buf'[b].inLs = buf[b].inLs
            /\ buf'[b].contents = buf[b].contents /\ buf'[b].hash = buf[b].hash
  <2>1. buf \in [Bufs -> Buffers \cup {None}] /\ buf' \in {Outdated, buf}
    BY DEF FilesInv, Typed, OthersWrite
  <2>2. \A b \in Buffers :
           LET c == [b EXCEPT !.stale = TRUE]
           IN  c \in Buffers /\ c.refs = b.refs /\ c.inLs = b.inLs
               /\ c.contents = b.contents /\ c.hash = b.hash
    BY DEF Buffers
  <2>3. CASE buf' = buf
    BY <2>1, <2>3
  <2>4. CASE buf' = Outdated
    <3>1. \A b \in Bufs :
             buf'[b] = IF buf[b] = None THEN None ELSE [buf[b] EXCEPT !.stale = TRUE]
      BY <2>4 DEF Outdated
    <3>2. \A b \in Bufs : buf[b] # None => buf'[b] \in Buffers
      BY <2>1, <2>2, <3>1
    <3>3. buf' \in [Bufs -> Buffers \cup {None}]
      <4>1. \A b \in Bufs : buf'[b] \in Buffers \cup {None}
        BY <3>1, <3>2
      <4>2. buf' = [b \in Bufs |-> buf'[b]]
        BY <2>4 DEF Outdated
      <4>3. QED
        BY <4>1, <4>2
    <3>4. QED
      BY <2>2, <3>1, <3>3
  <2>5. QED
    BY <2>1, <2>3, <2>4
<1>5. Typed(t)' /\ Observed(t)'
  BY <1>1, <1>3, <1>4 DEF FilesInv, Typed, Observed
<1>6. NoBuffer(t) => NoBuffer(t)'
  BY <1>1, <1>4 DEF NoBuffer
<1>7. ASSUME NEW n, Sole(t, n)
      PROVE  /\ Sole(t, n)' /\ buf'[own'[t]].inLs = buf[own[t]].inLs
             /\ buf'[own'[t]].contents = buf[own[t]].contents
             /\ buf'[own'[t]].hash = buf[own[t]].hash
             /\ buf[own[t]].inLs => t \in disturbed' /\ doc # None
  <2>1. buf[own[t]].inLs => t \in disturbed' /\ doc # None
    BY <1>1, <1>7 DEF Sole
  <2>2. QED
    BY <1>1, <1>4, <1>7, <2>1 DEF Sole
<1>8. ASSUME NEW n, Sole(t, n)
      PROVE  /\ Viewed(t) => Viewed(t)'
             /\ buf[own[t]].inLs /\ Answered(t) => Answered(t)'
  <2>1. Viewed(t) => Viewed(t)'
    BY <1>1, <1>3, <1>7, <1>8 DEF Viewed
  <2>2. buf[own[t]].inLs /\ Answered(t) => Answered(t)'
    BY <1>1, <1>7, <1>8 DEF Answered
  <2>3. QED
    BY <2>1, <2>2
<1>9. ASSUME NEW c, Kept(c, {edit[t]}), todo[t] # <<>>, edit[t] \in Edits
      PROVE  Kept(c, {edit[t]})'
  BY <1>1, <1>2, <1>9 DEF Kept
<1>10. ASSUME NEW n, Sole(t, n), NEW added, Carrying(t, added), todo[t] # <<>>
       PROVE  Carrying(t, added)'
  <2>1. edit[t] \in Edits /\ Kept(buf[own[t]].contents, {edit[t]}) /\ buf[own[t]].inLs
    BY <1>10 DEF Carrying
  <2>2. Kept(buf[own[t]].contents, {edit[t]})'
    <3>1. buf'[own'[t]].contents = buf[own[t]].contents /\ edit' = edit
      BY <1>1, <1>7, <1>10
    <3>2. QED
      BY <1>1, <1>2, <1>10, <2>1, <3>1 DEF Kept
  <2>3. QED
    BY <1>1, <1>2, <1>7, <1>10, <2>1, <2>2 DEF Carrying
<1>11. ASSUME Composed(t), todo[t] # <<>>
       PROVE  Composed(t)'
  BY <1>1, <1>2, <1>11 DEF Composed, Kept
<1>12. edit[t] \in Edits /\ todo[t] # <<>> => Landed(t)'
  BY <1>1, <1>2 DEF Landed
<1>13. AtLookup(t) => AtLookup(t)'
  BY <1>1, <1>6, <1>7, <1>8 DEF AtLookup, Held
<1>14. ASSUME AtEdit(t) PROVE AtEdit(t)'
  <2>1. todo[t] # <<>> /\ todo' = todo /\ edit' = edit /\ symbols' = symbols
    BY <1>1, <1>14, EditsFollow, RegisteringFollows DEF AtEdit
  <2>2. \A n \in {1, 2} : Held(t, n) => Held(t, n)'
    BY <1>1, <1>7 DEF Held
  <2>3. \A n \in {1, 2}, added \in SUBSET Halves(edit[t]) :
           Carries(t, n, added) => Carries(t, n, added)'
    BY <1>7, <1>10, <2>1, <2>2 DEF Carries, Held
  <2>4. /\ {} \in SUBSET Halves(edit[t]) /\ Halves(edit[t]) \in SUBSET Halves(edit[t])
        /\ {<<edit[t], "deletion">>} \in SUBSET Halves(edit[t])
    BY DEF Halves
  <2>5. CASE \/ todo[t] \in {Replace1, Rename1} /\ NoBuffer(t) /\ edit[t] \in Edits
             \/ /\ todo[t] \in Registering /\ Sole(t, 1) /\ open = None /\ Carrying(t, {})
                /\ symbols[t] # Empty
    BY <1>1, <1>6, <1>7, <1>10, <2>1, <2>5 DEF AtEdit
  <2>6. CASE \/ todo[t] \in {Rename2, Replace2} /\ Carries(t, 1, {}) /\ symbols[t] # Empty
             \/ todo[t] = Rename3 /\ Carries(t, 2, {})
             \/ todo[t] = Replace3 /\ Carries(t, 1, {<<edit[t], "deletion">>})
             \/ todo[t] = Rename4 /\ Carries(t, 2, {<<edit[t], "deletion">>})
             \/ todo[t] = Rename5 /\ Carries(t, 2, Halves(edit[t]))
             \/ todo[t] = Edited /\ Carries(t, 1, Halves(edit[t]))
    BY <2>1, <2>3, <2>4, <2>6 DEF AtEdit
  <2>7. CASE \/ todo[t] = Gotten /\ Held(t, 1) /\ Composed(t)
             \/ todo[t] = Cleared /\ Held(t, 1) /\ Composed(t) /\ disk \subseteq {Cut} \cup Writes
    BY <1>1, <1>11, <2>1, <2>2, <2>7 DEF AtEdit
  <2>8. QED
    BY <1>14, <2>5, <2>6, <2>7 DEF AtEdit
<1>15. ASSUME AtEnd(t) PROVE AtEnd(t)'
  <2>1. \A n \in {1, 2} : Held(t, n) => Held(t, n)'
    BY <1>1, <1>7 DEF Held
  <2>2. Written # <<>> /\ Finished # <<>> /\ edit[t] \in Edits \cup {None}
    BY EditsFollow DEF FilesInv, Typed
  <2>3. QED
    BY <1>1, <1>6, <1>12, <1>15, <2>1, <2>2 DEF AtEnd
<1>16. CacheSound' /\ FreshSymbols'
  BY <1>1, <1>3 DEF FilesInv, CacheSound, FreshSymbols, Sound
<1>17. EditsLand'
  <2>1. CASE At(t, "rewrite")
    BY <1>1, <2>1 DEF EditsLand, At
  <2>2. CASE ~At(t, "rewrite")
    <3>1. Kept(disk, {})
      BY <2>2, FileKept
    <3>2. \A e \in Edits : Halves(e) \cap disk' = Halves(e) \cap disk
      BY <1>1
    <3>3. Kept(disk, {})'
      BY <1>1, <1>2, <3>1, <3>2 DEF Kept
    <3>4. QED
      BY <3>3 DEF EditsLand
  <2>3. QED
    BY <2>1, <2>2
<1>18. QED
  BY <1>5, <1>13, <1>14, <1>15, <1>16, <1>17 DEF FilesInv

(* Steps after which everything the invariant speaks of is as it was.      *)
LEMMA OtherwiseKept ==
  ASSUME NEW t, FilesInv(t), ServerReady \/ UNCHANGED vars
  PROVE  FilesInv(t)'
<1>1. UNCHANGED <<disk, buf, open, doc, cacheVars, callVars, history>>
  BY DEF ServerReady
<1>2. Typed(t)' /\ Observed(t)'
  BY <1>1 DEF FilesInv, Typed, Observed
<1>3. CacheSound' /\ FreshSymbols' /\ EditsLand'
  BY <1>1 DEF FilesInv, CacheSound, FreshSymbols, EditsLand, Sound, Kept, At
<1>4. (AtLookup(t) \/ AtEdit(t) \/ AtEnd(t))'
  <2>1. AtLookup(t) => AtLookup(t)'
    BY <1>1 DEF AtLookup, NoBuffer, Held, Sole, Viewed, Answered, Sound
  <2>2. AtEdit(t) => AtEdit(t)'
    BY <1>1 DEF AtEdit, NoBuffer, Carries, Carrying, Composed, Held, Sole, Kept
  <2>3. AtEnd(t) => AtEnd(t)'
    BY <1>1 DEF AtEnd, NoBuffer, Held, Sole, Landed
  <2>4. QED
    BY <2>1, <2>2, <2>3 DEF FilesInv
<1>5. QED
  BY <1>2, <1>3, <1>4 DEF FilesInv

-----------------------------------------------------------------------------
(* FilesInv is an invariant.                                               *)
LEMMA AlwaysFiles ==
  ASSUME NEW t, Threads = {t}
  PROVE  Spec => []FilesInv(t)
<1>1. Init => FilesInv(t)
  <2> SUFFICES ASSUME Init PROVE FilesInv(t)
    OBVIOUS
  <2>1. disk \in Contents
    BY DEF Init, Contents
  <2>2. Typed(t) /\ Observed(t)
    BY <2>1, EditTypes DEF Init, Typed, Observed
  <2>3. AtEnd(t)
    BY DEF Init, AtEnd, NoBuffer
  <2>4. CacheSound /\ FreshSymbols /\ EditsLand
    BY DEF Init, CacheSound, FreshSymbols, EditsLand, Kept
  <2>5. QED
    BY <2>2, <2>3, <2>4 DEF FilesInv
<1>2. FilesInv(t) /\ [Next]_vars => FilesInv(t)'
  <2> SUFFICES ASSUME FilesInv(t), [Next]_vars PROVE FilesInv(t)'
    OBVIOUS
  <2>1. CASE Call(t)
    BY <2>1, CallKeeps
  <2>2. CASE Open(t)
    BY <2>2, SymbolNotFoundKeeps, ShareKeeps, CreateKeeps, RegisterKeeps, CloseKeeps DEF Open
  <2>3. CASE Request(t)
    BY <2>3, CheckCacheKeeps, EnsureOpenInLsKeeps, CheckRawCacheKeeps, AnswerKeeps, StoreRawKeeps,
       StoreSymbolsKeeps, RequestFailsKeeps DEF Request
  <2>4. CASE Edit(t)
    BY <2>4, DeleteTextKeeps, InsertTextKeeps, ChangeFailsKeeps, GetContentsKeeps,
       TruncateKeeps, WriteTextKeeps, SaveFailsKeeps DEF Edit
  <2>5. CASE SaveCaches(t)
    BY <2>5, SaveCachesKeeps
  <2>6. CASE Restart
    BY <2>6, RestartKeeps
  <2>7. CASE \E w \in Writes : OthersWrite(w)
    BY <2>7, OthersWriteKeeps
  <2>8. CASE ServerReady \/ UNCHANGED vars
    BY <2>8, OtherwiseKept
  <2>9. QED
    BY <2>1, <2>2, <2>3, <2>4, <2>5, <2>6, <2>7, <2>8 DEF Next
<1>3. QED
  BY <1>1, <1>2, PTL DEF Spec

(* A buffer never has more references than the contexts that are open, and *)
(* what is cached, open or seen is of its type at any time.                *)
THEOREM FilesTypes ==
  ASSUME NEW t, Threads = {t}
  PROVE  Spec => []TypeOK
<1>1. FilesInv(t) => TypeOK
  <2> SUFFICES ASSUME FilesInv(t) PROVE TypeOK
    OBVIOUS
  <2>1. Cardinality(Threads) = 1
    BY FS_Singleton
  <2>2. \A b \in Bufs : buf[b] # None => buf[b] \in Buffers /\ buf[b].refs \in 1 .. 2
    <3>1. CASE AtLookup(t)
      BY <3>1 DEF AtLookup, NoBuffer, Held, Sole
    <3>2. CASE AtEdit(t)
      BY <3>2 DEF AtEdit, NoBuffer, Carries, Held, Sole
    <3>3. CASE AtEnd(t)
      BY <3>3 DEF AtEnd, NoBuffer, Held, Sole
    <3>4. QED
      BY <3>1, <3>2, <3>3 DEF FilesInv
  <2>3. QED
    BY <2>1, <2>2 DEF FilesInv, Typed, TypeOK
<1>2. QED
  BY <1>1, AlwaysFiles, PTL

(* Through edits, failing requests, writes of others at any time, within   *)
(* one tick of the mtime or not, and restarts with older cache files: a    *)
(* cache has wrong symbols under a hash only in an entry that a request    *)
(* stored after others wrote since its didOpen.                            *)
THEOREM CachesAreSound ==
  ASSUME NEW t, Threads = {t}
  PROVE  Spec => []CacheSound
<1>1. FilesInv(t) => CacheSound
  BY DEF FilesInv
<1>2. QED
  BY <1>1, AlwaysFiles, PTL

(* No lookup answers with the symbols of contents that the file did not    *)
(* have during the call, except from such an entry.                        *)
THEOREM LookupsAreFresh ==
  ASSUME NEW t, Threads = {t}
  PROVE  Spec => []FreshSymbols
<1>1. FilesInv(t) => FreshSymbols
  BY DEF FilesInv
<1>2. QED
  BY <1>1, AlwaysFiles, PTL

(* What was reported as done is in the file, whole, whatever failed:       *)
(* except what others wrote while an edit was under way, that edit, and    *)
(* what a save lost that was cut short after the truncation.               *)
THEOREM EditsAreWhole ==
  ASSUME NEW t, Threads = {t}
  PROVE  Spec => []EditsLand
<1>1. FilesInv(t) => EditsLand
  BY DEF FilesInv
<1>2. QED
  BY <1>1, AlwaysFiles, PTL

(* The server's document is the buffer's unless others wrote since didOpen,*)
(* and every didOpen has had its didClose when the call is over.           *)
THEOREM ServerFollows ==
  ASSUME NEW t, Threads = {t}
  PROVE  Spec => []ServerInSync
<1>1. FilesInv(t) => ServerInSync
  <2> SUFFICES ASSUME FilesInv(t) PROVE ServerInSync
    OBVIOUS
  <2>1. open # None => (Sole(t, 1) \/ Sole(t, 2)) /\ open = own[t]
    <3>1. CASE AtLookup(t)
      BY <3>1 DEF AtLookup, NoBuffer, Held
    <3>2. CASE AtEdit(t)
      BY <3>2 DEF AtEdit, NoBuffer, Carries, Held
    <3>3. CASE AtEnd(t)
      BY <3>3 DEF AtEnd, NoBuffer, Held
    <3>4. QED
      BY <3>1, <3>2, <3>3 DEF FilesInv
  <2>2. todo[t] = <<>> => NoBuffer(t)
    BY Located
  <2>3. QED
    BY <2>1, <2>2 DEF ServerInSync, Sole, NoBuffer
<1>2. QED
  BY <1>1, AlwaysFiles, PTL

=============================================================================
