-------------------------------- MODULE Cache --------------------------------
(***************************************************************************)
(* The persistent cache (cache.rs) of several processes that share a file.  *)
(* The file is a sequence of characters, a few to a hash.  A flush          *)
(* truncates the file and writes it in place, in one piece or two, each at  *)
(* the writer's own offset, so that flushes overlap and a crash leaves a    *)
(* part of one.                                                             *)
(***************************************************************************)
EXTENDS Integers, SequencesExt, FiniteSetsExt

CONSTANTS
    Processes,
    Hashes,      \* texts of the formulas' hashes: all of one length, none with a separator
    Satisfiable, \* those whose formula is satisfiable
    Terms,       \* texts of simplified terms, the empty one when there is none
    MaxInserts,  \* bound on calls of insert
    MaxCrashes,  \* bound on crashes
    MaxOpens     \* bound on processes started

ASSUME HashAssumption ==
    Satisfiable \subseteq Hashes
    /\ \A h, g \in Hashes : Len(h) = Len(g) /\ Len(h) > 1 /\ {"|", "\n"} \intersect ToSet(h) = {}
ASSUME TextAssumption == \A t \in Hashes \union Terms : t \in Seq(ToSet(t))

VARIABLES
    file,
    entries,  \* entries[p]: hash |-> result
    pc,       \* "down", "up", and "truncate" and "write" within insert
    content,  \* what p is writing
    written,  \* how much of it p has written
    owner,    \* the process whose flush the file is, as a set: no other wrote into it
    mixed,    \* whether a piece of a flush went into what another had written
    inserts, crashes, opens

vars == <<file, entries, pc, content, written, owner, mixed, inserts, crashes, opens>>

-----------------------------------------------------------------------------
(* The format: hash|is_sat|simplified_term, one entry to a line.            *)

Split(text, separator) ==
    FoldLeft(LAMBDA parts, c : IF c = separator THEN Append(parts, <<>>)
                               ELSE Append(Front(parts), Append(Last(parts), c)),
             <<<<>>>>, text)

\* HashMap::insert.
With(es, hash, result) == [h \in DOMAIN es \union {hash} |-> IF h = hash THEN result ELSE es[h]]

\* The fields of a line.
\* Mutant: what is not 0 is satisfiable.
ResultOfNonZero(parts) == [is_sat |-> parts[2] # <<"0">>, term |-> IF Len(parts) >= 3 THEN parts[3] ELSE <<>>]
ResultOf(parts) == [is_sat |-> parts[2] = <<"1">>, term |-> IF Len(parts) >= 3 THEN parts[3] ELSE <<>>]
Parsed(text) ==
    FoldLeft(LAMBDA found, line : LET parts == Split(line, "|")
                                  IN  IF Len(parts) >= 2 THEN With(found, parts[1], ResultOf(parts)) ELSE found,
             <<>>, Split(text, "\n"))

\* Mutant: nothing ends a line.
LineUnended(hash, result) == hash \o <<"|", IF result.is_sat THEN "1" ELSE "0", "|">> \o result.term
Line(hash, result) == hash \o <<"|", IF result.is_sat THEN "1" ELSE "0", "|">> \o result.term \o <<"\n">>
\* The entries in the order of the hash map, which is any.
Contents(es) == {FlattenSeq([i \in DOMAIN order |-> Line(order[i], es[order[i]])]) : order \in SetToSeqs(DOMAIN es)}

\* A piece written at an offset; a gap reads as zeros.
WrittenAt(text, offset, piece) ==
    LET end == offset + Len(piece)
    IN  [i \in 1..(IF end > Len(text) THEN end ELSE Len(text)) |->
            CASE i > offset /\ i <= end -> piece[i - offset]
              [] (i <= offset \/ i > end) /\ i <= Len(text) -> text[i]
              [] i <= offset /\ i > Len(text) -> "NUL"] \o <<>>

-----------------------------------------------------------------------------

Open(p) ==
    /\ pc[p] = "down" /\ opens < MaxOpens
    /\ entries' = [entries EXCEPT ![p] = Parsed(file)]
    /\ pc' = [pc EXCEPT ![p] = "up"] /\ opens' = opens + 1
    /\ UNCHANGED <<file, content, written, owner, mixed, inserts, crashes>>

\* The caller inserts what the solver found.
Insert(p) ==
    /\ pc[p] = "up" /\ inserts < MaxInserts
    /\ \E h \in Hashes, term \in Terms :
          entries' = [entries EXCEPT ![p] = With(@, h, [is_sat |-> h \in Satisfiable, term |-> term])]
    /\ \E text \in Contents(entries'[p]) : content' = [content EXCEPT ![p] = text]
    /\ pc' = [pc EXCEPT ![p] = "truncate"] /\ inserts' = inserts + 1
    /\ UNCHANGED <<file, written, owner, mixed, crashes, opens>>

Truncate(p) ==
    /\ pc[p] = "truncate"
    /\ file' = <<>>
    /\ owner' = IF \E q \in Processes \ {p} : pc[q] = "write" THEN {} ELSE {p}
    /\ written' = [written EXCEPT ![p] = 0]
    /\ pc' = [pc EXCEPT ![p] = "write"]
    /\ UNCHANGED <<entries, content, mixed, inserts, crashes, opens>>

Write(p) ==
    /\ pc[p] = "write"
    /\ \E n \in IF written[p] = 0 THEN 1..Len(content[p]) ELSE {Len(content[p])} :
          /\ file' = WrittenAt(file, written[p], SubSeq(content[p], written[p] + 1, n))
          /\ mixed' = (mixed \/ (owner # {p} /\ (written[p] > 0 \/ n < Len(content[p]))))
          /\ IF n = Len(content[p])
             THEN /\ pc' = [pc EXCEPT ![p] = "up"]
                  /\ content' = [content EXCEPT ![p] = <<>>]
                  /\ written' = [written EXCEPT ![p] = 0]
             ELSE /\ written' = [written EXCEPT ![p] = n]
                  /\ UNCHANGED <<pc, content>>
    /\ owner' = owner \intersect {p}
    /\ UNCHANGED <<entries, inserts, crashes, opens>>

Crash(p) ==
    /\ pc[p] # "down" /\ crashes < MaxCrashes
    /\ pc' = [pc EXCEPT ![p] = "down"] /\ crashes' = crashes + 1
    /\ entries' = [entries EXCEPT ![p] = <<>>]
    /\ content' = [content EXCEPT ![p] = <<>>] /\ written' = [written EXCEPT ![p] = 0]
    /\ owner' = IF pc[p] = "write" THEN {} ELSE owner
    /\ UNCHANGED <<file, mixed, inserts, opens>>

Init ==
    /\ file = <<>> /\ owner = {} /\ mixed = FALSE
    /\ entries = [p \in Processes |-> <<>>] /\ pc = [p \in Processes |-> "down"]
    /\ content = [p \in Processes |-> <<>>] /\ written = [p \in Processes |-> 0]
    /\ inserts = 0 /\ crashes = 0 /\ opens = 0

Next == \E p \in Processes : Open(p) \/ Insert(p) \/ Truncate(p) \/ Write(p) \/ Crash(p)

Spec == Init /\ [][Next]_vars

-----------------------------------------------------------------------------
(* Properties.                                                              *)

\* No crash or read in the middle of a flush, and no overlap of flushes that
\* go out in one piece, makes the cache call an unsatisfiable formula
\* satisfiable (cache.rs:57, :120).  Pieces of two flushes can: the verdict of
\* one entry may end up behind the hash of another.
SatHonest ==
    ~mixed => \A p \in Processes : \A h \in DOMAIN entries[p] \intersect Hashes : entries[p][h].is_sat => h \in Satisfiable

\* A flush no other process wrote into is read back whole: every hash with
\* its verdict, and with its term unless the term has a separator, as quoted
\* symbols do (cache.rs:53, :113).
RoundTrip ==
    \A p \in owner : pc[p] = "up" =>
        LET read == Parsed(file)
        IN  /\ DOMAIN read = DOMAIN entries[p]
            /\ \A h \in DOMAIN read :
                  /\ read[h].is_sat = entries[p][h].is_sat
                  /\ "|" \notin ToSet(entries[p][h].term) => read[h].term = entries[p][h].term

=============================================================================
