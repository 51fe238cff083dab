-------------------------------- MODULE Patch --------------------------------
(***************************************************************************)
(* What a patch makes of a file (internal/diff/patch.go): where the        *)
(* sections of an update are found in the file's lines, the chunks they    *)
(* come to and the lines the file has afterwards.                          *)
(*                                                                         *)
(* The text of the patch is taken as split into its lines, and each line   *)
(* into its mark and the rest.  Of a line of a file only its word and the  *)
(* white space at its ends are kept.  Positions count the lines before, as *)
(* the indices of the code do.                                             *)
(***************************************************************************)
EXTENDS Naturals, Sequences, FiniteSets, SequencesExt

CONSTANT NoDef  \* a section that begins with a bare "@@", or with nothing

Lines(words) == [word : words, left : BOOLEAN, right : BOOLEAN]

\* strings.TrimRight and strings.TrimSpace
TrimRight(l) == [l EXCEPT !.right = FALSE]
TrimSpace(l) == [l EXCEPT !.left = FALSE, !.right = FALSE]

Least(S) == CHOOSE i \in S : \A j \in S : i <= j

---------------------------------------------------------------------------
(* Where a section is *)

\* The places, from start on, where Same holds of all lines of context.
Matches(file, context, start, Same(_, _)) ==
  {i \in start .. Len(file) : i + Len(context) <= Len(file) /\
     \A j \in DOMAIN context : Same(file[i + j], context[j])}

Nowhere == [status |-> "error"]
At(i, fuzz) == [status |-> "ok", at |-> i, fuzz |-> fuzz]

\* The comparison that ignores the white space on the left counts as fuzz 1 like
\* that on the right: tryFindMatch tells them apart by a test both pass.
FindContextCore(file, context, start) ==
  LET exact == Matches(file, context, start, LAMBDA a, b : a = b)
      right == Matches(file, context, start, LAMBDA a, b : TrimRight(a) = TrimRight(b))
      both  == Matches(file, context, start, LAMBDA a, b : TrimSpace(a) = TrimSpace(b))
  IN CASE context = <<>> -> At(start, 0)
       [] context # <<>> /\ exact # {} -> At(Least(exact), 0)
       [] context # <<>> /\ exact = {} /\ right # {} -> At(Least(right), 1)
       [] context # <<>> /\ exact = {} /\ right = {} /\ both # {} -> At(Least(both), 1)
       [] OTHER -> Nowhere

\* At the end of the file first, where a section longer than the file makes the
\* index negative.
FindContext(file, context, start, eof) ==
  IF ~eof THEN FindContextCore(file, context, start)
  ELSE IF Len(context) > Len(file) THEN [status |-> "panic"]
  ELSE LET last == FindContextCore(file, context, Len(file) - Len(context))
           any  == FindContextCore(file, context, start)
       IN CASE last.status = "ok" -> last
            [] last.status # "ok" /\ any.status = "ok" -> At(any.at, any.fuzz + 10000)
            [] OTHER -> Nowhere

\* The line after "@@ ": to the place behind it, unless it has been passed.  That
\* it is not there at all is no error.
Seek(file, def, index) ==
  LET before == 1 .. index
      after  == index + 1 .. Len(file)
      Alike(i) == TrimSpace(file[i]) = TrimSpace(def)
  IN CASE def = NoDef -> At(index, 0)
       [] def # NoDef /\ (\E i \in before : file[i] = def) -> At(index, 0)
       [] def # NoDef /\ (\A i \in before : file[i] # def) /\ (\E i \in after : file[i] = def) ->
            At(Least({i \in after : file[i] = def}), 0)
       [] def # NoDef /\ (\A i \in before \cup after : file[i] # def) ->
            IF (\A i \in before : ~Alike(i)) /\ (\E i \in after : Alike(i))
            THEN At(Least({i \in after : Alike(i)}), 1) ELSE At(index, 0)

---------------------------------------------------------------------------
(* parseUpdateFile *)

\* The lines of a section that the file has: those without a "+".
Old(lines) ==
  FlattenSeq([j \in DOMAIN lines |-> IF lines[j].mark = "add" THEN <<>> ELSE <<lines[j].line>>])

\* A section, [def, lines, end], of which findContext has said where it is.  Its end
\* is the line that ends it: the next section's or the next file's, "*** End of
\* File", or another that begins with "***", which the next turn refuses, or takes
\* for an empty section for ever if it still is at the file's beginning.
Placed(s, section, from, found) ==
  LET index == found.at + Len(Old(section.lines))
  IN CASE s.status # "ok" -> s
       [] s.status = "ok" /\ found.status # "ok" -> [s EXCEPT !.status = found.status]
       [] s.status = "ok" /\ found.status = "ok" ->
            [status |-> CASE section.end # "junk" -> "ok"
                          [] section.end = "junk" -> IF index = 0 THEN "hang" ELSE "error",
             index  |-> index,
             fuzz   |-> s.fuzz + from.fuzz + found.fuzz,
             places |-> Append(s.places, [at |-> found.at, lines |-> section.lines])]

ParseSection(file, s, section) ==
  LET from == Seek(file, section.def, s.index)
  IN Placed(s, section, from, FindContext(file, Old(section.lines), from.at, section.end = "eof"))

ParseUpdateFile(file, sections) ==
  LET parsed[k \in 0 .. Len(sections)] ==
        IF k = 0 THEN [status |-> "ok", index |-> 0, fuzz |-> 0, places |-> <<>>]
        ELSE ParseSection(file, parsed[k - 1], sections[k])
  IN parsed[Len(sections)]

---------------------------------------------------------------------------
(* peekNextSection and getUpdatedFile *)

Flush(c) ==
  IF c.ins = <<>> /\ c.del = 0 THEN c.chunks
  ELSE Append(c.chunks, [at |-> c.old - c.del, del |-> c.del, ins |-> c.ins])

\* Mutant of Chunk: what was collected is kept when lines to keep come.
ChunkKeepsAll(c, l) ==
  [c EXCEPT !.mode = l.mark,
            !.chunks = IF l.mark = "keep" /\ c.mode # "keep" THEN Flush(c) ELSE @,
            !.old = IF l.mark = "add" THEN @ ELSE @ + 1,
            !.del = IF l.mark = "delete" THEN @ + 1 ELSE @,
            !.ins = IF l.mark = "add" THEN Append(@, l.line) ELSE @]

\* A line of a section joins the chunk, or ends it if it is one to keep.
Chunk(c, l) ==
  LET d == IF l.mark = "keep" /\ c.mode # "keep"
           THEN [c EXCEPT !.chunks = Flush(c), !.del = 0, !.ins = <<>>] ELSE c
  IN [d EXCEPT !.mode = l.mark,
               !.old = IF l.mark = "add" THEN @ ELSE @ + 1,
               !.del = IF l.mark = "delete" THEN @ + 1 ELSE @,
               !.ins = IF l.mark = "add" THEN Append(@, l.line) ELSE @]

\* The chunks of a section that was found at a place, after so many of its lines.
Collected(place) ==
  LET c[j \in 0 .. Len(place.lines)] ==
        IF j = 0 THEN [mode |-> "keep", old |-> place.at, del |-> 0, ins |-> <<>>, chunks |-> <<>>]
        ELSE Chunk(c[j - 1], place.lines[j])
  IN c

ChunksOf(place) == Flush(Collected(place)[Len(place.lines)])

\* A chunk behind which the file is already copied, or beyond its end, is refused.
Apply(file, u, chunk) ==
  IF u.status # "ok" \/ chunk.at > Len(file) \/ u.index > chunk.at
  THEN [u EXCEPT !.status = "error"]
  ELSE [u EXCEPT !.dest = @ \o SubSeq(file, u.index + 1, chunk.at) \o chunk.ins,
                 !.index = chunk.at + chunk.del]

ApplyAll(file, chunks) ==
  LET u[m \in 0 .. Len(chunks)] ==
        IF m = 0 THEN [status |-> "ok", dest |-> <<>>, index |-> 0]
        ELSE Apply(file, u[m - 1], chunks[m])
  IN u[Len(chunks)]

GetUpdatedFile(file, places) ==
  LET u == ApplyAll(file, FlattenSeq([k \in DOMAIN places |-> ChunksOf(places[k])]))
  IN [status |-> u.status, new |-> u.dest \o SubSeq(file, u.index + 1, Len(file))]

---------------------------------------------------------------------------
(* What the sections say, line by line *)

\* How many of the file's lines come before the j-th line of a section.
Before(place, j) == place.at + Len(Old(SubSeq(place.lines, 1, j - 1)))

\* The lines of all the sections, each with the lines of the file before it.
Marks(place) ==
  [j \in DOMAIN place.lines |-> [mark   |-> place.lines[j].mark,
                                 line   |-> place.lines[j].line,
                                 before |-> Before(place, j)]]
Marked(places) == FlattenSeq([k \in DOMAIN places |-> Marks(places[k])])

\* Whether one of them deletes the i-th line of the file, and what they add behind it.
Deleted(marked, i) == \E m \in DOMAIN marked : marked[m].mark = "delete" /\ marked[m].before = i - 1
Added(marked, i) ==
  FlattenSeq([m \in DOMAIN marked |-> IF marked[m].mark = "add" /\ marked[m].before = i
                                      THEN <<marked[m].line>> ELSE <<>>])

\* What becomes of the i-th line of the file; the 0-th is none.
Slot(file, marked, i) ==
  (IF i = 0 \/ Deleted(marked, i) THEN <<>> ELSE <<file[i]>>) \o Added(marked, i)

\* The file without the lines marked "-" and with those marked "+" where they
\* stand between its lines.
Described(file, places) ==
  FlattenSeq([n \in 1 .. Len(file) + 1 |-> Slot(file, Marked(places), n - 1)])

=============================================================================
