---------------------- MODULE StartupTranslation_proofs ----------------------
(***************************************************************************)
(* Theorems about the translation at the start of the server, for any      *)
(* number of pages, versions and texts, and any limits of the batches.     *)
(***************************************************************************)
EXTENDS StartupTranslation, TLAPS

\* What holds of the files at every step: a whole translated file is
\* complete, one that is announced is up to date.
WholeIsComplete ==
  \A f \in Files : target[f].state = "whole" =>
    target[f].texts = AllTexts(f, target[f].version)

AnnouncedIsUpToDate ==
  stage # "down" => \A f \in Files : outcome[f] = "ready" => UpToDate(f)

\* Where the loop over the batches is.
LoopInv ==
  /\ stage \in {"check", "down", "listening"} => first = 1 /\ next = 1 /\ chars = 0 /\ texts = {}
  /\ stage \in {"fill", "sent"} =>
       /\ texts = 1..(first - 1)
       /\ first <= next /\ next <= NumTexts(file) + 1
       /\ first <= NumTexts(file)
       /\ next - first <= MaxBatchSize
       /\ chars <= MaxBatchChars \/ next - first = 1
       /\ next = first => chars = 0
  /\ stage = "sent" => first < next
  /\ stage \in {"translated", "writing"} => texts = AllTexts(file, source[file])
  /\ stage \in {"fill", "sent", "translated"} => ~UpToDate(file)
  /\ stage = "writing" => target[file] \in {Blank, Written("cut", source[file], {})}

IInv == TranslationTypeOK /\ WholeIsComplete /\ AnnouncedIsUpToDate /\ LoopInv

USE DEF UpToDate, StringsUpToDate, PageUpToDate

----------------------------------------------------------------------------
LEMMA ContentTyped ==
  ASSUME NEW s \in {"cut", "whole"}, NEW v \in Versions, NEW t \in SUBSET Nat
  PROVE  /\ Blank \in Content /\ Missing \in Content
         /\ Written(s, v, t) \in Content
         /\ Written(s, v, t).state = s
         /\ Written(s, v, t).version = v
         /\ Written(s, v, t).texts = t
         /\ Blank.state = "blank" /\ Missing.state = "missing"
BY DEF Content, Blank, Missing, Written

LEMMA TextsTyped ==
  ASSUME NEW f \in Files, NEW v \in Versions
  PROVE  /\ Len(Sizes[f][v]) \in Nat
         /\ \A i \in AllTexts(f, v) : Sizes[f][v][i] \in Nat
         /\ AllTexts(f, v) \in SUBSET Nat
         /\ AllTexts(f, v) = 1..Len(Sizes[f][v])
BY TranslationAssumption DEF AllTexts

LEMMA StringsIsFile == Strings \in Files
BY DEF Files

LEMMA InitHolds == Init => IInv
<1> SUFFICES ASSUME Init PROVE IInv
  OBVIOUS
<1>1. PICK present \in SUBSET Files, from \in [Files -> Versions] :
        target = [f \in Files |-> IF f \in present
                    THEN Written("whole", from[f], AllTexts(f, from[f])) ELSE Missing]
  BY DEF Init
<1>2. ASSUME NEW f \in Files
      PROVE  /\ target[f] \in Content
             /\ target[f].state = "whole" => target[f].texts = AllTexts(f, target[f].version)
  <2>1. CASE f \in present
    <3>1. target[f] = Written("whole", from[f], AllTexts(f, from[f]))
      BY <1>1, <2>1
    <3>2. from[f] \in Versions /\ AllTexts(f, from[f]) \in SUBSET Nat
      BY TextsTyped
    <3> QED BY <3>1, <3>2, ContentTyped
  <2>2. CASE f \notin present
    <3>1. target[f] = Missing
      BY <1>1, <2>2
    <3>2. Missing \in Content /\ Missing.state # "whole"
      BY DEF Missing, Content
    <3> QED BY <3>1, <3>2
  <2> QED BY <2>1, <2>2
<1>3. target \in [Files -> Content]
  BY <1>1, <1>2
<1>4. TranslationTypeOK
  BY <1>3, StringsIsFile, TranslationAssumption DEF Init, TranslationTypeOK
<1> QED BY <1>2, <1>4 DEF Init, IInv, WholeIsComplete, AnnouncedIsUpToDate, LoopInv

----------------------------------------------------------------------------
(* The end of a file, however it ends.                                     *)

LEMMA FileEndsKeeps ==
  ASSUME IInv, NEW result \in {"ready", "english"}, FileEnds(result),
         stage \notin {"down", "listening"}, source' = source,
         target' \in [Files -> Content], WholeIsComplete',
         \A f \in Files : UpToDate(f) => UpToDate(f)',
         \A f \in Files : f = file /\ result = "ready" => UpToDate(f)'
  PROVE  IInv'
<1>1. file \in Files /\ outcome \in [Files -> {"none", "ready", "english"}]
  BY DEF IInv, TranslationTypeOK
<1>2. /\ stage' \in {"check", "listening"} /\ file' \in Files
      /\ outcome' \in [Files -> {"none", "ready", "english"}]
      /\ \A f \in Files : outcome'[f] = IF f = file THEN result ELSE outcome[f]
  <2>1. ~(file = NumDocs \/ (file = Strings /\ result = "english")) => file + 1 \in Files
    BY <1>1, TranslationAssumption DEF Files, Strings, Docs
  <2> QED BY <1>1, <2>1, StringsIsFile DEF FileEnds
<1>3. TranslationTypeOK'
  BY <1>2, TranslationAssumption DEF IInv, TranslationTypeOK, FileEnds
<1>4. AnnouncedIsUpToDate'
  <2> SUFFICES ASSUME NEW f \in Files, outcome'[f] = "ready" PROVE UpToDate(f)'
    BY DEF AnnouncedIsUpToDate
  <2>1. CASE f = file
    BY <1>2, <2>1
  <2>2. CASE f # file
    BY <1>2, <2>2 DEF IInv, AnnouncedIsUpToDate
  <2> QED BY <2>1, <2>2
<1>5. LoopInv'
  BY <1>2 DEF FileEnds, LoopInv
<1> QED BY <1>3, <1>4, <1>5 DEF IInv

\* A step that leaves the files alone leaves what is said of them alone.
LEMMA FilesUnchanged ==
  ASSUME source' = source, target' = target
  PROVE  /\ \A f \in Files : UpToDate(f)' = UpToDate(f)
         /\ WholeIsComplete' = WholeIsComplete
BY DEF WholeIsComplete, AllTexts

LEMMA CheckKeeps == ASSUME IInv, Check PROVE IInv'
<1> USE FilesUnchanged DEF IInv, TranslationTypeOK
<1>1. CASE CacheIsCurrent
  <2>1. FileEnds("ready") /\ \A f \in Files : f = file => UpToDate(f)'
    BY <1>1 DEF CacheIsCurrent
  <2> QED BY <1>1, <2>1, FileEndsKeeps DEF CacheIsCurrent
<1>2. CASE NothingToTranslate
  BY <1>2, FileEndsKeeps DEF NothingToTranslate
<1>3. CASE Translate
  <2>1. NumTexts(file) \in Nat /\ NumTexts(file)' = NumTexts(file)
    BY <1>3, TextsTyped DEF Translate, NumTexts, work
  <2>2. LoopInv'
    BY <1>3, <2>1, TranslationAssumption DEF Translate, LoopInv, work
  <2> QED BY <1>3, <2>2 DEF Translate, AnnouncedIsUpToDate, work
<1> QED BY <1>1, <1>2, <1>3 DEF Check

LEMMA BatchKeeps == ASSUME IInv, Batch PROVE IInv'
<1> USE FilesUnchanged DEF IInv, TranslationTypeOK
<1> NumTexts(file) \in Nat /\ file \in Files /\ source[file] \in Versions
  BY TextsTyped DEF NumTexts
<1> AllTexts(file, source[file]) = 1..NumTexts(file)
  BY DEF AllTexts, NumTexts
<1>1. CASE AddText
  <2>1. NextSize \in Nat
    BY <1>1, TextsTyped DEF AddText, HasRoom, NextSize, NumTexts, LoopInv, AllTexts
  <2>2. NumTexts(file)' = NumTexts(file)
    BY <1>1 DEF AddText, NumTexts
  <2>3. LoopInv'
    BY <1>1, <2>1, <2>2, TranslationAssumption DEF AddText, HasRoom, LoopInv
  <2> QED BY <1>1, <2>1, <2>3 DEF AddText, AnnouncedIsUpToDate
<1>2. CASE SendBatch
  <2>1. NumTexts(file)' = NumTexts(file)
    BY <1>2 DEF SendBatch, NumTexts, work
  <2>2. first < next
    BY <1>2, TranslationAssumption DEF SendBatch, HasRoom, LoopInv
  <2>3. LoopInv'
    BY <1>2, <2>1, <2>2 DEF SendBatch, LoopInv, work
  <2> QED BY <1>2, <2>3 DEF SendBatch, AnnouncedIsUpToDate, work
<1>3. CASE BatchTranslated
  <2>1. /\ NumTexts(file)' = NumTexts(file)
        /\ AllTexts(file, source[file])' = AllTexts(file, source[file])
    BY <1>3 DEF BatchTranslated, NumTexts, AllTexts
  <2>2. texts' = 1..(next - 1) /\ first' = next /\ next' = next
    BY <1>3 DEF BatchTranslated, LoopInv
  <2>3. LoopInv'
    BY <1>3, <2>1, <2>2, TranslationAssumption DEF BatchTranslated, LoopInv
  <2> QED BY <1>3, <2>2, <2>3, TranslationAssumption DEF BatchTranslated, AnnouncedIsUpToDate
<1>4. CASE RateLimited
  <2>1. NumTexts(file)' = NumTexts(file)
    BY <1>4 DEF RateLimited, NumTexts
  <2>2. LoopInv'
    BY <1>4, <2>1 DEF RateLimited, LoopInv
  <2> QED BY <1>4, <2>2, TranslationAssumption DEF RateLimited, AnnouncedIsUpToDate
<1>5. CASE BatchFails
  BY <1>5, FileEndsKeeps DEF BatchFails
<1> QED BY <1>1, <1>2, <1>3, <1>4, <1>5 DEF Batch

LEMMA WriteKeeps == ASSUME IInv, Write PROVE IInv'
<1> USE DEF IInv, TranslationTypeOK
<1> /\ file \in Files /\ source[file] \in Versions
    /\ AllTexts(file, source[file]) \in SUBSET Nat
  BY TextsTyped
<1>1. CASE OpenTarget
  <2>1. /\ target' \in [Files -> Content] /\ source' = source
        /\ \A f \in Files : target'[f] = IF f = file THEN Blank ELSE target[f]
    BY <1>1, ContentTyped DEF OpenTarget
  <2>2. Blank.state = "blank"
    BY DEF Blank
  <2>3. WholeIsComplete'
    BY <2>1, <2>2 DEF WholeIsComplete, AllTexts
  <2>4. AnnouncedIsUpToDate'
    BY <1>1, <2>1 DEF OpenTarget, AnnouncedIsUpToDate, LoopInv, work
  <2>5. LoopInv'
    BY <1>1, <2>1 DEF OpenTarget, LoopInv, AllTexts, work
  <2> QED BY <1>1, <2>1, <2>3, <2>4, <2>5 DEF OpenTarget, work
<1>2. CASE WriteBeginning
  <2> DEFINE cut == Written("cut", source[file], {})
  <2>1. cut \in Content /\ cut.state = "cut"
    BY ContentTyped
  <2>2. /\ target' \in [Files -> Content] /\ source' = source /\ stage' = stage
        /\ \A f \in Files : target'[f] = IF f = file THEN cut ELSE target[f]
    BY <1>2, <2>1 DEF WriteBeginning
  <2>3. WholeIsComplete'
    BY <2>1, <2>2 DEF WholeIsComplete, AllTexts
  <2>4. ~UpToDate(file)
    BY <1>2 DEF WriteBeginning, Blank
  <2>5. AnnouncedIsUpToDate'
    BY <1>2, <2>2, <2>4 DEF WriteBeginning, AnnouncedIsUpToDate, work
  <2>6. LoopInv'
    BY <1>2, <2>2 DEF WriteBeginning, LoopInv, AllTexts, work
  <2> QED BY <1>2, <2>2, <2>3, <2>5, <2>6 DEF WriteBeginning, work
<1>3. CASE WriteEnd
  <2> DEFINE whole == Written("whole", source[file], texts)
  <2>1. /\ whole \in Content /\ whole.state = "whole"
        /\ whole.version = source[file] /\ whole.texts = AllTexts(file, source[file])
    BY <1>3, ContentTyped DEF WriteEnd, LoopInv
  <2>2. /\ target' \in [Files -> Content] /\ source' = source
        /\ \A f \in Files : target'[f] = IF f = file THEN whole ELSE target[f]
    BY <1>3, <2>1 DEF WriteEnd
  <2>3. WholeIsComplete'
    BY <2>1, <2>2 DEF WholeIsComplete, AllTexts
  <2>4. \A f \in Files : f = file \/ UpToDate(f) => UpToDate(f)'
    BY <2>1, <2>2
  <2> QED BY <1>3, <2>2, <2>3, <2>4, FileEndsKeeps DEF WriteEnd
<1>4. CASE WriteFails
  BY <1>4, FilesUnchanged, FileEndsKeeps DEF WriteFails
<1> QED BY <1>1, <1>2, <1>3, <1>4 DEF Write

LEMMA ProcessKeeps ==
  ASSUME IInv, Start \/ StartWithoutKey \/ Killed \/ Deploy
  PROVE  IInv'
<1> USE DEF IInv, TranslationTypeOK, work
<1>1. CASE Start
  BY <1>1, FilesUnchanged DEF Start, AnnouncedIsUpToDate, LoopInv
<1>2. CASE StartWithoutKey
  BY <1>2, FilesUnchanged DEF StartWithoutKey, AnnouncedIsUpToDate, LoopInv
<1>3. CASE Killed
  BY <1>3, FilesUnchanged, StringsIsFile, TranslationAssumption
     DEF Killed, AnnouncedIsUpToDate, LoopInv
<1>4. CASE Deploy
  <2>1. source' \in [Files -> Versions] /\ WholeIsComplete'
    BY <1>4 DEF Deploy, WholeIsComplete, AllTexts
  <2> QED BY <1>4, <2>1 DEF Deploy, AnnouncedIsUpToDate, LoopInv
<1> QED BY <1>1, <1>2, <1>3, <1>4

LEMMA Inductive == IInv /\ [Next]_vars => IInv'
<1> SUFFICES ASSUME IInv, [Next]_vars PROVE IInv'
  OBVIOUS
<1>1. CASE Next
  BY <1>1, CheckKeeps, BatchKeeps, WriteKeeps, ProcessKeeps DEF Next
<1>2. CASE UNCHANGED vars
  BY <1>2, FilesUnchanged
     DEF vars, work, IInv, TranslationTypeOK, AnnouncedIsUpToDate, LoopInv, NumTexts, AllTexts
<1> QED BY <1>1, <1>2

LEMMA IInvAlways == Spec => []IInv
BY InitHolds, Inductive, PTL DEF Spec

----------------------------------------------------------------------------
\* Every variable has its type.
THEOREM TypeCorrect == Spec => []TranslationTypeOK
BY IInvAlways, PTL DEF IInv

\* A file of strings that passes the cache check has every text of its
\* source: it was written to its end, and only after all the batches.
THEOREM TrustedStrings == Spec => []TrustedStringsAreComplete
<1>1. IInv => TrustedStringsAreComplete
  BY StringsIsFile DEF IInv, WholeIsComplete, TrustedStringsAreComplete, TrustedIsComplete
<1> QED BY <1>1, IInvAlways, PTL

\* What the start announces as translated is up to date when it listens.
THEOREM ReadyIsUpToDate == Spec => []ReadyMeansUpToDate
<1>1. IInv => ReadyMeansUpToDate
  BY DEF IInv, AnnouncedIsUpToDate, ReadyMeansUpToDate
<1> QED BY <1>1, IInvAlways, PTL

\* Every batch is within the limits of the API and goes on where the last
\* one ended.
THEOREM BatchesAlwaysFit == Spec => []BatchesFit
<1>1. IInv => BatchesFit
  BY DEF IInv, TranslationTypeOK, LoopInv, BatchesFit
<1> QED BY <1>1, IInvAlways, PTL

\* No start, failure or kill undoes a translation.
THEOREM TranslationsLast == Spec => UpToDateStays
<1> DEFINE Stays == \A f \in Files : UpToDate(f) /\ source'[f] = source[f] => UpToDate(f)'
<1>1. IInv /\ [Next]_vars => [Stays]_vars
  <2> SUFFICES ASSUME IInv, Next, NEW f \in Files, UpToDate(f), source'[f] = source[f]
               PROVE  UpToDate(f)'
    BY DEF Stays
  <2>1. CASE target' = target
    BY <2>1
  <2>2. CASE target' # target
    <3>1. target \in [Files -> Content] /\ file \in Files /\ source \in [Files -> Versions]
      BY DEF IInv, TranslationTypeOK
    <3>2. CASE OpenTarget
      <4>1. f # file
        BY <3>2 DEF OpenTarget, IInv, LoopInv
      <4> QED BY <3>1, <3>2, <4>1 DEF OpenTarget
    <3>3. CASE WriteBeginning
      <4>1. f # file
        BY <3>3 DEF WriteBeginning, Blank
      <4> QED BY <3>1, <3>3, <4>1 DEF WriteBeginning
    <3>4. CASE WriteEnd
      BY <3>1, <3>4 DEF WriteEnd, Written
    <3> QED
      BY <2>2, <3>2, <3>3, <3>4
         DEF Next, Start, StartWithoutKey, Check, CacheIsCurrent, NothingToTranslate,
             Translate, Batch, AddText, SendBatch, BatchTranslated, RateLimited,
             BatchFails, Write, WriteFails, Killed, Deploy
  <2> QED BY <2>1, <2>2
<1> QED BY <1>1, IInvAlways, PTL DEF Spec, UpToDateStays

=============================================================================
