------------------------- MODULE StartupTranslation -------------------------
(***************************************************************************)
(* The translation of the user interface while the server starts: one file *)
(* of strings (en.json) and then the documentation pages, one after the    *)
(* other, each through the translator's API in batches, before the server  *)
(* listens (services/translation.service.ts,                               *)
(* services/translation-startup.service.ts), and what a page then gets to  *)
(* see (middleware/translated-html.ts, public/js/i18n.js).                 *)
(*                                                                         *)
(* Simplifications:                                                        *)
(* - The process may be killed at any step; the files survive it, with     *)
(*   what had been written to them.                                        *)
(* - The configured language is one other than English, always the same.   *)
(* - A source file is the number of its version, and a version stands for  *)
(*   its hash. A text is its place in the source, with the number of       *)
(*   characters it is sent with (placeholders and protected terms marked). *)
(* - The list of protected terms does not change.                          *)
(* - The pauses between batches, files and attempts do nothing else, and   *)
(*   are not steps of their own.                                           *)
(***************************************************************************)
EXTENDS Naturals, Sequences

CONSTANTS
  NumDocs,        \* TRANSLATABLE_DOCS.length
  Versions,       \* the versions of a source file
  Sizes,          \* Sizes[f][v][i]: the length of text i of version v of file f
  MaxBatchSize,   \* MAX_BATCH_SIZE
  MaxBatchChars,  \* MAX_BATCH_CHARS
  MaxRetries      \* RETRY_DELAYS.length

Strings == 0
Docs    == 1..NumDocs
Files   == {Strings} \cup Docs

ASSUME TranslationAssumption ==
  /\ NumDocs \in Nat
  /\ Versions # {}
  /\ Sizes \in [Files -> [Versions -> Seq(Nat)]]
  /\ MaxBatchSize \in Nat \ {0}
  /\ MaxBatchChars \in Nat
  /\ MaxRetries \in Nat

VARIABLES
  source,  \* source[f]: the version of f that is deployed
  target,  \* target[f]: its translated file on disk
  stage,   \* where runStartupTranslation is, or "down", or "listening"
  file,    \* the file being translated
  first,   \* the place of the first text of the batch
  next,    \* the place of the first text not in a batch yet
  chars,   \* batchCharCount
  attempt, \* the attempt at sending the batch
  texts,   \* the texts translated so far
  outcome  \* outcome[f]: what the start announced about f

work == <<first, next, chars, attempt, texts>>
vars == <<source, target, stage, file, work, outcome>>

----------------------------------------------------------------------------
(* The files. Opening a file for writing empties it; until its last byte   *)
(* is written it holds a beginning, with the hash and not all of the texts *)
(* (none of them, in the model).                                           *)

Missing == [state |-> "missing"]
Blank   == [state |-> "blank"]
Written(s, v, t) == [state |-> s, version |-> v, texts |-> t]

Content == {Missing, Blank}
             \cup [state : {"cut", "whole"}, version : Versions, texts : SUBSET Nat]

NumTexts(f) == Len(Sizes[f][source[f]])
AllTexts(f, v) == 1..Len(Sizes[f][v])

\* A file of strings is parsed before its hash is looked at; of a page only
\* the first line is read.
StringsUpToDate ==
  target[Strings].state = "whole" /\ target[Strings].version = source[Strings]
PageUpToDate(f) ==
  target[f].state \in {"cut", "whole"} /\ target[f].version = source[f]
UpToDate(f) == IF f = Strings THEN StringsUpToDate ELSE PageUpToDate(f)

\* A browser that cannot parse the strings falls back to English. A page is
\* sent in translation whenever there is a file of that name.
StringsInEnglish == target[Strings].state # "whole"
PageInEnglish(f) == target[f] = Missing
ShownInEnglish(f) == IF f = Strings THEN StringsInEnglish ELSE PageInEnglish(f)

----------------------------------------------------------------------------
\* The translated files that come with the repository are whole, and were
\* made from some version of their sources.
Init ==
  /\ source \in [Files -> Versions]
  /\ \E present \in SUBSET Files, from \in [Files -> Versions] :
       /\ \A f \in present : AllTexts(f, from[f]) # {}
       /\ target = [f \in Files |-> IF f \in present
                      THEN Written("whole", from[f], AllTexts(f, from[f]))
                      ELSE Missing]
  /\ stage = "down"
  /\ file = Strings
  /\ first = 1 /\ next = 1 /\ chars = 0 /\ attempt = 0 /\ texts = {}
  /\ outcome = [f \in Files |-> "none"]

\* runStartupTranslation moves on: to the next file, or to server.listen.
FileEnds(result) ==
  /\ outcome' = [outcome EXCEPT ![file] = result]
  /\ IF file = NumDocs \/ (file = Strings /\ result = "english")
     THEN stage' = "listening" /\ file' = Strings
     ELSE stage' = "check" /\ file' = file + 1
  /\ first' = 1 /\ next' = 1 /\ chars' = 0 /\ attempt' = 0 /\ texts' = {}

\* Without an API key the start ends here, and announces English.
StartWithoutKey ==
  /\ stage = "down"
  /\ stage' = "listening"
  /\ outcome' = [f \in Files |-> IF f = Strings THEN "english" ELSE "none"]
  /\ UNCHANGED <<source, target, file, work>>

Start ==
  /\ stage = "down"
  /\ stage' = "check"
  /\ outcome' = [f \in Files |-> "none"]
  /\ UNCHANGED <<source, target, file, work>>

CacheIsCurrent ==
  /\ stage = "check"
  /\ UpToDate(file)
  /\ FileEnds("ready")
  /\ UNCHANGED <<source, target>>

\* The source is missing, cannot be parsed, or has no text.
NothingToTranslate ==
  /\ stage = "check"
  /\ ~UpToDate(file)
  /\ NumTexts(file) = 0
  /\ FileEnds("english")
  /\ UNCHANGED <<source, target>>

Translate ==
  /\ stage = "check"
  /\ ~UpToDate(file)
  /\ NumTexts(file) > 0
  /\ stage' = "fill"
  /\ UNCHANGED <<source, target, file, work, outcome>>

----------------------------------------------------------------------------
(* The batches.                                                            *)

NextSize == Sizes[file][source[file]][next]

HasRoomUntilFull ==                     \* mutant: the text itself is not counted
  /\ next <= NumTexts(file)
  /\ next - first < MaxBatchSize
  /\ ~(chars > MaxBatchChars /\ next > first)

HasRoomEvenForNone ==                   \* mutant: the first text has to fit, too
  /\ next <= NumTexts(file)
  /\ next - first < MaxBatchSize
  /\ ~(chars + NextSize > MaxBatchChars)

HasRoom ==
  /\ next <= NumTexts(file)
  /\ next - first < MaxBatchSize
  /\ ~(chars + NextSize > MaxBatchChars /\ next > first)

AddText ==
  /\ stage = "fill"
  /\ HasRoom
  /\ next' = next + 1
  /\ chars' = chars + NextSize
  /\ UNCHANGED <<source, target, stage, file, first, attempt, texts, outcome>>

SendBatch ==
  /\ stage = "fill"
  /\ ~HasRoom
  /\ stage' = "sent"
  /\ UNCHANGED <<source, target, file, work, outcome>>

BatchTranslated ==
  /\ stage = "sent"
  /\ texts' = texts \cup (first..(next - 1))
  /\ first' = next /\ chars' = 0 /\ attempt' = 0
  /\ stage' = IF next <= NumTexts(file) THEN "fill" ELSE "translated"
  /\ UNCHANGED <<source, target, file, next, outcome>>

RateLimited ==
  /\ stage = "sent"
  /\ attempt < MaxRetries
  /\ attempt' = attempt + 1
  /\ UNCHANGED <<source, target, stage, file, first, next, chars, texts, outcome>>

FailureKeepsWhatIsDone ==               \* mutant: break for return false
  /\ stage = "sent"
  /\ stage' = "translated"
  /\ UNCHANGED <<source, target, file, work, outcome>>

\* Another status, a rate limit once too often, no answer, or one that does
\* not have as many translations as texts.
BatchFails ==
  /\ stage = "sent"
  /\ FileEnds("english")
  /\ UNCHANGED <<source, target>>

----------------------------------------------------------------------------
(* fs.writeFile: the file is opened, emptied, and written.                 *)

OpenWithoutAwait ==                     \* mutant: writeFile is not awaited
  /\ stage = "translated"
  /\ target' = [target EXCEPT ![file] = Blank]
  /\ FileEnds("ready")
  /\ UNCHANGED source

OpenTarget ==
  /\ stage = "translated"
  /\ stage' = "writing"
  /\ target' = [target EXCEPT ![file] = Blank]
  /\ UNCHANGED <<source, file, work, outcome>>

WriteBeginning ==
  /\ stage = "writing"
  /\ target[file] = Blank
  /\ target' = [target EXCEPT ![file] = Written("cut", source[file], {})]
  /\ UNCHANGED <<source, stage, file, work, outcome>>

WriteEnd ==
  /\ stage = "writing"
  /\ target' = [target EXCEPT ![file] = Written("whole", source[file], texts)]
  /\ FileEnds("ready")
  /\ UNCHANGED source

\* The file cannot be opened, or the disk is full.
WriteFails ==
  /\ stage \in {"translated", "writing"}
  /\ FileEnds("english")
  /\ UNCHANGED <<source, target>>

----------------------------------------------------------------------------
(* The process, and who deploys it.                                        *)

Killed ==
  /\ stage # "down"
  /\ stage' = "down"
  /\ file' = Strings
  /\ first' = 1 /\ next' = 1 /\ chars' = 0 /\ attempt' = 0 /\ texts' = {}
  /\ UNCHANGED <<source, target, outcome>>

\* Another version of a source, under the translated files there are.
Deploy ==
  /\ stage = "down"
  /\ \E f \in Files, v \in Versions :
       /\ v # source[f]
       /\ source' = [source EXCEPT ![f] = v]
  /\ UNCHANGED <<target, stage, file, work, outcome>>

Check == CacheIsCurrent \/ NothingToTranslate \/ Translate
Batch == AddText \/ SendBatch \/ BatchTranslated \/ RateLimited \/ BatchFails
Write == OpenTarget \/ WriteBeginning \/ WriteEnd \/ WriteFails

Next ==
  \/ Start \/ StartWithoutKey \/ Check \/ Batch \/ Write
  \/ Killed \/ Deploy

\* The start runs on, and every request to the translator is answered or
\* fails: fetch gives up on a server that does not answer.
Fairness == WF_vars(Check \/ Batch \/ Write)

Spec == Init /\ [][Next]_vars /\ Fairness

----------------------------------------------------------------------------
(* Properties.                                                             *)

TranslationTypeOK ==
  /\ source \in [Files -> Versions]
  /\ target \in [Files -> Content]
  /\ stage \in {"down", "check", "fill", "sent", "translated", "writing", "listening"}
  /\ file \in Files
  /\ first \in Nat \ {0} /\ next \in Nat \ {0}
  /\ chars \in Nat
  /\ attempt \in 0..MaxRetries
  /\ texts \in SUBSET Nat
  /\ outcome \in [Files -> {"none", "ready", "english"}]

TrustedIsComplete(f) == UpToDate(f) => target[f].texts = AllTexts(f, source[f])

\* A file of strings that the next start will take for up to date has every
\* text of the deployed source, whatever start wrote it, was killed while
\* writing it, or ran out of answers or of disk (translation.service.ts:
\* 108-120, 183-197).
TrustedStringsAreComplete == TrustedIsComplete(Strings)

\* The same, of the documentation pages. It does not hold: a page cut short
\* has the hash of its source in the first line.
TrustedPagesAreComplete == \A f \in Docs : TrustedIsComplete(f)

\* What is translated stays so: a file that is up to date is neither emptied
\* nor outdated by another start, by a failure or by the end of the process,
\* only by another version of its source.
UpToDateStays ==
  [][\A f \in Files : UpToDate(f) /\ source'[f] = source[f] => UpToDate(f)']_vars

\* A file that the start announces as translated is up to date when the
\* server listens, and as long as it does.
ReadyMeansUpToDate ==
  stage = "listening" => \A f \in Files : outcome[f] = "ready" => UpToDate(f)

\* What is sent is never empty, has no more texts than the API takes, and no
\* more characters unless it is a single text; and no text is left behind
\* it: what comes before the batch is translated.
BatchesFit ==
  stage = "sent" =>
    /\ next - first \in 1..MaxBatchSize
    /\ chars <= MaxBatchChars \/ next - first = 1
    /\ texts = 1..(first - 1)

\* "Will serve English version" (translation-startup.service.ts:86), "UI will
\* fall back to English" (:56, :73): a file whose translation failed is shown
\* in English. It does not hold: an older translation is still there, and is
\* shown (README.md, Findings).
FailureShowsEnglish ==
  stage = "listening" => \A f \in Files : outcome[f] = "english" => ShownInEnglish(f)

\* However the translator answers, the start gets to server.listen, unless
\* the process is killed first.
EveryStartListens == stage = "check" ~> stage \in {"listening", "down"}

=============================================================================
