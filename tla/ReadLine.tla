------------------------------ MODULE ReadLine ------------------------------
(***************************************************************************)
(* The line reader of the scripts (common/readlineSync.js): it reads the   *)
(* ballot file or the voter file by chunks and cuts each chunk at          *)
(* /\r\n?|\n/.  A character is itself or one of CR and LF.  The caller is  *)
(* a script that is blocked until getline returns (see OfflineVerify).     *)
(***************************************************************************)
EXTENDS Naturals, Sequences, SequencesExt

CONSTANTS CR, LF,      \* the two characters that end lines
          Texts,       \* contents of a file
          ChunkSize    \* 65536 in the code

ASSUME ChunkAssumption == ChunkSize \in Nat \ {0} /\ CR # LF
ASSUME TextsAssumption == \A t \in Texts : t \in Seq(Range(t))

VARIABLES
    text,       \* the file
    position,   \* characters read so far
    cacheStr,   \* lines cut but not returned
    partialStr, \* the beginning of a line that has not ended
    out,        \* lines returned by getline
    pc          \* "idle", "loop" inside getline, "end" after it returned null

fileVars == <<text, position, cacheStr, partialStr, out, pc>>

FileInit ==
    /\ text \in Texts
    /\ position = 0
    /\ cacheStr = <<>>
    /\ partialStr = <<>>
    /\ out = <<>>
    /\ pc = "idle"

\* str.split(/\r\n?|\n/): CR LF ends one line.
Cut(acc, ch) ==
    IF ch = LF /\ acc.cr THEN [acc EXCEPT !.cr = FALSE]
    ELSE IF ch \in {CR, LF}
    THEN [lines |-> Append(acc.lines, acc.cur), cur |-> <<>>, cr |-> ch = CR]
    ELSE [acc EXCEPT !.cur = Append(@, ch), !.cr = FALSE]

Split(str) ==
    LET end == FoldLeft(Cut, [lines |-> <<>>, cur |-> <<>>, cr |-> FALSE], str)
    IN  Append(end.lines, end.cur)

\* getline with a line in the cache, or after the last one.
Call ==
    /\ pc = "idle"
    /\ \/ /\ cacheStr # <<>>
          /\ out' = Append(out, Head(cacheStr))
          /\ cacheStr' = Tail(cacheStr)
          /\ UNCHANGED pc
       \/ /\ cacheStr = <<>>
          /\ pc' = IF position = Len(text) THEN "end" ELSE "loop"
          /\ UNCHANGED <<cacheStr, out>>
    /\ UNCHANGED <<text, position, partialStr>>

\* One chunk: how far it goes, and whether the file ends with it.
Upto == IF position + ChunkSize < Len(text) THEN position + ChunkSize
                                            ELSE Len(text)
AtEnd == Upto = Len(text)

\* Mutant: what an earlier chunk left is forgotten.
PartsForget == Split(SubSeq(text, position + 1, Upto))

\* The chunk cut in parts, after what an earlier chunk left.
Parts ==
    [Split(SubSeq(text, position + 1, Upto)) EXCEPT ![1] = partialStr \o @]

\* The last part waits for the next chunk unless the file ends.
Found == IF AtEnd /\ Last(Parts) # <<>> THEN Parts ELSE Front(Parts)

\* One turn of the loop in getline: it returns with the first line found.
\* Found is empty before the end of the file only.
ReadChunk ==
    /\ pc = "loop"
    /\ position' = Upto
    /\ partialStr' = IF AtEnd THEN <<>> ELSE Last(Parts)
    /\ \/ /\ Found = <<>> /\ ~AtEnd
          /\ UNCHANGED <<out, cacheStr, pc>>
       \/ /\ Found # <<>>
          /\ out' = Append(out, Head(Found))
          /\ cacheStr' = Tail(Found)
          /\ pc' = "idle"
    /\ UNCHANGED text

-----------------------------------------------------------------------------
(* Properties.                                                             *)

\* The reference: the file cut as a whole; a rest of no characters is no line.
Lines == LET all == Split(text)
         IN  IF Last(all) = <<>> THEN Front(all) ELSE all

Keep(kept, line) == IF line = <<>> THEN kept ELSE Append(kept, line)
NonEmpty(lines) == FoldLeft(Keep, <<>>, lines)

\* At the end every line that is not empty was returned once, in order, at
\* whatever character the chunks were cut, CR LF included; of a file with LF
\* only, as dumpVotes writes it, all lines were, the empty ones too.
LinesRead ==
    pc = "end" => /\ NonEmpty(out) = NonEmpty(Lines)
                  /\ (\A i \in DOMAIN text : text[i] # CR) => out = Lines
=============================================================================
