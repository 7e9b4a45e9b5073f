----------------------------- MODULE ResolvConf -----------------------------
(***************************************************************************)
(* resolvconf.c: the lines of /etc/resolv.conf and the two operations on   *)
(* them.  A file is its lines and whether the last one ends in a newline;  *)
(* what is appended to one that does not becomes a part of that line.  A   *)
(* value is the sequence of its words.                                     *)
(***************************************************************************)
EXTENDS SequencesExt

CONSTANTS
  MAX_LINES,  \* from this line on, no name server is added
  Blank,      \* the beginning every word has: no character of it
  Begins,     \* pairs of a word and a longer one that begins with it
  Garbled     \* what becomes of a word that runs into the next line's keyword

ASSUME MaxLinesAssumption == MAX_LINES \in Nat \ {0}

Line(kind, words) == [kind |-> kind, words |-> words]

\* A comment, a part of a keyword.
OtherLine == Line("other", <<>>)

Terminated(f) == f.ended \/ f.lines = <<>>

\* The lines that end in a newline.
Finished(f) == {n \in DOMAIN f.lines : n < Len(f.lines) \/ f.ended}

\* An unfinished line runs on into the next one.
RunOn(last, line) ==
  IF last.kind = "other" THEN OtherLine
  ELSE Line(last.kind, Front(last.words) \o <<Garbled>> \o line.words)

AddLine(f, line) ==
  [lines |-> IF Terminated(f) THEN Append(f.lines, line)
                              ELSE Append(Front(f.lines), RunOn(Last(f.lines), line)),
   ended |-> TRUE]

\* sscanf() finds the keyword and a word after it.
Reads(line, kind) == line.kind = kind /\ line.words[1] # Blank

\* One word is read, and the value is compared with that word.
Names(line, server) == Reads(line, "nameserver") /\ server = <<line.words[1]>>

HasServer(f, server) == \E n \in DOMAIN f.lines : Names(f.lines[n], server)

\* A name server other than this one at or after the last line allowed: -ERANGE, unless
\* an earlier line names this one.
TooManyLines(f, server) ==
  \E n \in DOMAIN f.lines :
     /\ n >= MAX_LINES
     /\ Reads(f.lines[n], "nameserver")
     /\ \A k \in 1..n : ~Names(f.lines[k], server)

\* MUTANT of SetServer: the file is not looked through first.
AddServer(f, server) == AddLine(f, Line("nameserver", server))

SetServer(f, server) ==
  IF HasServer(f, server) THEN f ELSE AddLine(f, Line("nameserver", server))

SearchLine(f) == SelectInSeq(f.lines, LAMBDA l : Reads(l, "search"))

\* The first search line is replaced, newline included.
SetSearch(f, domains) ==
  LET n == SearchLine(f)
  IN  IF n = 0 THEN AddLine(f, Line("search", domains))
      ELSE [lines |-> [f.lines EXCEPT ![n].words = domains],
            ended |-> f.ended \/ n = Len(f.lines)]

\* What there is of a word after each of its characters.
PartsOf(word) == {Blank, word} \cup {b[1] : b \in {c \in Begins : c[2] = word}}

\* What a write cut short may leave of a line: a part of its keyword, or of its words.
Torn(line) ==
  {OtherLine}
  \cup UNION {{Line(line.kind, Append(SubSeq(line.words, 1, k - 1), part)) :
                 part \in PartsOf(line.words[k])} : k \in DOMAIN line.words}

\* And of a file: whole lines, or a part of a line more.
CutShort(f) ==
  {[lines |-> SubSeq(f.lines, 1, n - 1), ended |-> TRUE] : n \in DOMAIN f.lines}
  \cup UNION {{[lines |-> Append(SubSeq(f.lines, 1, n - 1), torn), ended |-> FALSE] :
                 torn \in Torn(f.lines[n])} : n \in DOMAIN f.lines}
=============================================================================
