------------------------------- MODULE Regexps -------------------------------
(***************************************************************************)
(* Regular expressions (src/regex.c): the parser, the small programs that  *)
(* patterns are compiled to, and the two engines that run them.  One tries *)
(* alternatives in turn; the other, for patterns without back-references   *)
(* and loops that may match nothing, runs all of them in lockstep.         *)
(*                                                                         *)
(* A pattern is a sequence of tokens.  Text is a sequence of bytes; "lead" *)
(* and "cont" are those of a character of two.  Positions count from 0.    *)
(* Left out: case, sets but complements of one byte, shy groups, and the   *)
(* number of steps after which backtracking gives up.                      *)
(***************************************************************************)
EXTENDS Integers, Sequences, SequencesExt

CONSTANTS RegexPatterns, RegexTexts, RegexBefore  \* the byte before the text, or "none"

VARIABLES regex,   \* what the pattern is compiled to, and its tree, or "none"
          found    \* the subject of the last search and what it found
regexVars == <<regex, found>>

NotCompiled == [tree |-> [op |-> "empty"], prog |-> <<>>, simple |-> TRUE]
NotFound == <<-1, -1>>
RegexInit == regex = NotCompiled /\ found = [text |-> <<>>, before |-> "none",
                                             forward |-> TRUE, match |-> NotFound]

-----------------------------------------------------------------------------
(* Trees, which fragments are compiled from *)

Leaf(op, c) == [op |-> op, c |-> c]
Pair(op, l, r) == [op |-> op, l |-> l, r |-> r]
Empty == [op |-> "empty"]
StarLoop(b, greedy, reg) == [op |-> "star", b |-> b, greedy |-> greedy, reg |-> reg]
Opt(b, greedy) == [op |-> "opt", b |-> b, greedy |-> greedy]
Group(n, b) == [op |-> "group", n |-> n, b |-> b]

RECURSIVE Nullable(_)
Nullable(t) ==
    CASE t.op \in {"char", "any", "not", "word"} -> FALSE
      [] t.op = "seq" -> Nullable(t.l) /\ Nullable(t.r)
      [] t.op = "alt" -> Nullable(t.l) \/ Nullable(t.r)
      [] t.op = "group" -> Nullable(t.b)
      [] OTHER -> TRUE

(* frag_repeat: b min times, then more of it, or max - min times, nested    *)
RECURSIVE Copies(_, _), Nested(_, _, _)
Copies(b, n) == IF n = 0 THEN Empty ELSE IF n = 1 THEN b ELSE Pair("seq", Copies(b, n - 1), b)
Nested(b, n, greedy) ==
    IF n = 0 THEN Empty ELSE Opt(Pair("seq", b, Nested(b, n - 1, greedy)), greedy)
Star(b, greedy, loops) == StarLoop(b, greedy, IF Nullable(b) THEN loops ELSE -1)
Repeated(b, min, max, greedy, loops) ==
    Pair("seq", Copies(b, min), IF max < 0 THEN Star(b, greedy, loops)
                                ELSE Nested(b, max - min, greedy))

-----------------------------------------------------------------------------
(* The parser: what is left of the pattern, the groups opened and the loops *)
(* that may match nothing so far, whether there is an error, and the tree.  *)

Parsed(ps, n, t) == [ps EXCEPT !.rest = SubSeq(@, n + 1, Len(@)), !.tree = t]
BadPattern(ps) == [ps EXCEPT !.err = TRUE]
Next1(ps) == IF ps.rest = <<>> THEN "end" ELSE Head(ps.rest)
LookingAt(ps, s) == ps.rest # <<>> /\ Head(ps.rest) = s
AtBranchEnd(ps) == Next1(ps) \in {"end", "\\|", "\\)"}

Quantifiers == [q \in {"*", "+", "?", "{2}", "{1,2}"} |->
    CASE q = "*" -> <<0, -1>> [] q = "+" -> <<1, -1>> [] q = "?" -> <<0, 1>>
      [] q = "{2}" -> <<2, 2>> [] q = "{1,2}" -> <<1, 2>>]

(* The quantifiers after an atom: `?' after one that is not \{\} makes it   *)
(* lazy.                                                                   *)
RECURSIVE ParseQuantifiers(_)
ParseQuantifiers(ps) ==
    LET q == Next1(ps)
        lazy == q \in {"*", "+", "?"} /\ Len(ps.rest) > 1 /\ ps.rest[2] = "?"
        min == Quantifiers[q][1]
        max == Quantifiers[q][2]
        t == Repeated(ps.tree, min, max, ~lazy, ps.loops)
        after == [Parsed(ps, IF lazy THEN 2 ELSE 1, t) EXCEPT
                    !.loops = IF max < 0 /\ Nullable(ps.tree) THEN @ + 1 ELSE @]
    IN  IF ps.err \/ q \notin DOMAIN Quantifiers THEN ps ELSE ParseQuantifiers(after)

RECURSIVE ParseAlt(_), ParseAlts(_), ParseBranch(_, _, _)

ParseGroup(ps) ==
    LET n == ps.groups + 1
        inner == ParseAlt([Parsed(ps, 1, Empty) EXCEPT !.groups = n])
    IN  IF inner.err \/ ~LookingAt(inner, "\\)") THEN BadPattern(inner)
        ELSE Parsed(inner, 1, Group(n, inner.tree))

ParseAtom(ps, branchStart) ==
    LET c == Next1(ps)
    IN  CASE c = "^" /\ branchStart -> Parsed(ps, 1, Leaf("bol", c))
          [] c = "$" -> Parsed(ps, 1, Leaf(IF AtBranchEnd(Parsed(ps, 1, Empty))
                                           THEN "eol" ELSE "char", c))
          [] c = "." -> Parsed(ps, 1, Leaf("any", c))
          [] c = "[^b]" -> Parsed(ps, 1, Leaf("not", "b"))
          [] c = "\\w" -> Parsed(ps, 1, Leaf("word", c))
          [] c \in {"\\b", "\\<"} -> Parsed(ps, 1, Leaf(c, c))
          [] c = "\\(" -> ParseGroup(ps)
          [] c = "\\1" -> IF ps.groups = 0 THEN BadPattern(ps) ELSE Parsed(ps, 1, Leaf("ref", 1))
          [] OTHER -> Parsed(ps, 1, Leaf("char", c))

(* parse_branch, after tree f *)
ParseBranch(ps, f, branchStart) ==
    LET c == Next1(ps)
        anchor == c = "^" /\ branchStart
        atom == IF branchStart /\ c \in {"*", "+", "?"} THEN Parsed(ps, 1, Leaf("char", c))
                ELSE ParseAtom(ps, branchStart)
        quantified == IF anchor THEN atom ELSE ParseQuantifiers(atom)
    IN  IF AtBranchEnd(ps) \/ ps.err THEN [ps EXCEPT !.tree = f]
        ELSE ParseBranch(quantified, Pair("seq", f, quantified.tree), anchor)

ParseAlts(ps) ==
    LET right == ParseBranch(Parsed(ps, 1, Empty), Empty, TRUE)
    IN  IF ps.err \/ ~LookingAt(ps, "\\|") THEN ps
        ELSE ParseAlts([right EXCEPT !.tree = Pair("alt", ps.tree, @)])
ParseAlt(ps) == ParseAlts(ParseBranch(ps, Empty, TRUE))

Parse(pattern) ==
    LET ps == ParseAlt([rest |-> pattern, groups |-> 0, loops |-> 0, err |-> FALSE, tree |-> Empty])
    IN  IF LookingAt(ps, "\\)") THEN BadPattern(ps) ELSE ps

-----------------------------------------------------------------------------
(* Programs: frag_alt, frag_star, frag_opt, and what parse_atom pushes      *)

Inst(op, a, b) == <<[op |-> op, a |-> a, b |-> b]>>
SplitTo(greedy, n) == IF greedy THEN Inst("split", 1, n) ELSE Inst("split", n, 1)
AltOf(f, g) == Inst("split", 1, Len(f) + 2) \o f \o Inst("jmp", Len(g) + 1, 0) \o g
StarOf(f, greedy, reg) ==
    LET body == IF reg < 0 THEN f ELSE Inst("mark", reg, 0) \o f \o Inst("check", reg, 0)
    IN  SplitTo(greedy, Len(body) + 2) \o body \o Inst("jmp", -(Len(body) + 1), 0)
OptOf(f, greedy) == SplitTo(greedy, Len(f) + 1) \o f

RECURSIVE Compiled(_)
Compiled(t) ==
    CASE t.op = "empty" -> <<>>
      [] t.op = "seq" -> Compiled(t.l) \o Compiled(t.r)
      [] t.op = "alt" -> AltOf(Compiled(t.l), Compiled(t.r))
      [] t.op = "star" -> StarOf(Compiled(t.b), t.greedy, t.reg)
      [] t.op = "opt" -> OptOf(Compiled(t.b), t.greedy)
      [] t.op = "group" -> Inst("save", 2 * t.n, 0) \o Compiled(t.b) \o Inst("save", 2 * t.n + 1, 0)
      [] OTHER -> Inst(t.op, t.c, 0)

(* regex_compile *)
Compile ==
    \E p \in RegexPatterns :
      LET ps == Parse(p)
      IN  /\ regex = NotCompiled
          /\ ~ps.err
          /\ regex' = [tree |-> ps.tree, prog |-> Compiled(ps.tree) \o Inst("match", 0, 0),
                       simple |-> ps.loops = 0 /\ \A i \in DOMAIN p : p[i] # "\\1"]
          /\ UNCHANGED found

-----------------------------------------------------------------------------
(* A subject *)

ByteAt(s, i) == IF i < 0 THEN s.before ELSE IF i >= Len(s.text) THEN "none" ELSE s.text[i + 1]
WordByte(c) == c \in {"a", "b", "lead", "cont"}
CharLen(s, sp) == IF ByteAt(s, sp) = "lead" /\ ByteAt(s, sp + 1) = "cont" THEN 2 ELSE 1
Matcher == {"char", "any", "not", "word"}
Assertion == {"bol", "eol", "\\b", "\\<"}

(* step_inst: the bytes taken, or 0 *)
StepInst(s, in, sp) ==
    LET c == ByteAt(s, sp)
        takes == CASE in.op = "char" -> c = in.a
                   [] in.op = "any" -> c # "nl"
                   [] in.op = "not" -> c # in.a
                   [] in.op = "word" -> WordByte(c)
    IN  IF sp >= Len(s.text) \/ ~takes THEN 0 ELSE IF in.op = "char" THEN 1 ELSE CharLen(s, sp)

(* check_assertion *)
Holds(s, op, sp) ==
    LET p == ByteAt(s, sp - 1)
        n == ByteAt(s, sp)
    IN  CASE op = "bol" -> p \in {"none", "nl"}
          [] op = "eol" -> n \in {"none", "nl"}
          [] op = "\\b" -> WordByte(p) # WordByte(n)
          [] op = "\\<" -> ~WordByte(p) /\ WordByte(n)

-----------------------------------------------------------------------------
(* match_here: the end of the first match on from pc, or -1.  The registers *)
(* are 2 and 3 for the group, and loops count from 10.                      *)

Unset == [r \in {2, 3} \cup 10 .. 12 |-> -1]
RECURSIVE MatchHere(_, _, _, _, _)
MatchHere(prog, s, pc, sp, regs) ==
    LET in == prog[pc + 1]
        On(n, r) == MatchHere(prog, s, pc + 1, sp + n, r)
        first == MatchHere(prog, s, pc + in.a, sp, regs)
        size == regs[3] - regs[2]
    IN  CASE in.op = "match" -> sp
          [] in.op = "split" -> IF first # -1 THEN first
                                ELSE MatchHere(prog, s, pc + in.b, sp, regs)
          [] in.op = "jmp" -> first
          [] in.op = "save" -> On(0, [regs EXCEPT ![in.a] = sp])
          [] in.op = "mark" -> On(0, [regs EXCEPT ![10 + in.a] = sp])
          [] in.op = "check" -> IF regs[10 + in.a] # sp THEN On(0, regs) ELSE -1
          [] in.op = "ref" -> IF /\ regs[2] # -1 /\ regs[3] # -1 /\ size >= 0
                                 /\ sp + size <= Len(s.text)
                                 /\ SubSeq(s.text, regs[2] + 1, regs[3])
                                      = SubSeq(s.text, sp + 1, sp + size)
                              THEN On(size, regs) ELSE -1
          [] in.op \in Assertion -> IF Holds(s, in.op, sp) THEN On(0, regs) ELSE -1
          [] OTHER -> IF StepInst(s, in, sp) = 0 THEN -1 ELSE On(StepInst(s, in, sp), regs)

Backtracked(prog, s, forward) ==
    LET starts == {p \in 0 .. Len(s.text) : MatchHere(prog, s, 0, p, Unset) # -1}
        p == CHOOSE q \in starts : \A r \in starts : IF forward THEN q <= r ELSE r <= q
    IN  IF starts = {} THEN NotFound ELSE <<p, MatchHere(prog, s, 0, p, Unset)>>

-----------------------------------------------------------------------------
(* pike_run: a list has its threads in order, and what its stamps mark      *)

NoThreads == [t |-> <<>>, marks |-> {}, waits |-> {}]
PushWaiting(l, pc, start, wait) ==
    IF <<pc, wait>> \in l.waits THEN l
    ELSE [l EXCEPT !.t = Append(@, [pc |-> pc, start |-> start, wait |-> wait]),
                   !.waits = @ \cup {<<pc, wait>>}]

(* add_thread, the ways still to follow in order. *)
RECURSIVE Follow(_, _, _, _, _, _)
Follow(prog, s, l, pcs, start, sp) ==
    LET pc == Head(pcs)
        in == prog[pc + 1]
        ways == CASE in.op = "jmp" -> <<pc + in.a>>
                  [] in.op = "split" -> <<pc + in.a, pc + in.b>>
                  [] in.op \in {"save", "mark", "check"} -> <<pc + 1>>
                  [] in.op \in Assertion -> IF Holds(s, in.op, sp) THEN <<pc + 1>> ELSE <<>>
                  [] OTHER -> <<>>
        waits == in.op \in Matcher \cup {"match"}
    IN  IF pcs = <<>> THEN l
        ELSE IF pc \in l.marks THEN Follow(prog, s, l, Tail(pcs), start, sp)
        ELSE Follow(prog, s,
                    [l EXCEPT !.marks = @ \cup {pc},
                              !.t = IF waits THEN Append(@, [pc |-> pc, start |-> start, wait |-> 0])
                                    ELSE @],
                    ways \o Tail(pcs), start, sp)
AddThread(prog, s, l, pc, start, sp) == Follow(prog, s, l, <<pc>>, start, sp)

(* One thread at sp: what it adds to the next list *)
StepThread_Now(prog, s, t, l, sp) ==
    LET n == StepInst(s, prog[t.pc + 1], sp)
    IN  IF n = 0 THEN l ELSE AddThread(prog, s, l, t.pc + 1, t.start, sp + 1)
StepThread(prog, s, t, l, sp) ==
    LET n == StepInst(s, prog[t.pc + 1], sp)
    IN  IF t.wait = 1 THEN AddThread(prog, s, l, t.pc, t.start, sp + 1)
        ELSE IF t.wait > 1 THEN PushWaiting(l, t.pc, t.start, t.wait - 1)
        ELSE IF n = 0 THEN l
        ELSE IF n = 1 THEN AddThread(prog, s, l, t.pc + 1, t.start, sp + 1)
        ELSE PushWaiting(l, t.pc + 1, t.start, n - 1)

(* Those before the first that has matched; the others are cut off.         *)
Matching(prog, l) == {i \in DOMAIN l.t : l.t[i].wait = 0 /\ prog[l.t[i].pc + 1].op = "match"}
FirstMatch(prog, l) == CHOOSE i \in Matching(prog, l) : \A j \in Matching(prog, l) : i <= j
Alive(prog, l) ==
    IF Matching(prog, l) = {} THEN l.t ELSE SubSeq(l.t, 1, FirstMatch(prog, l) - 1)

RECURSIVE PikeRun(_, _, _, _, _, _)
PikeRun(prog, s, l, sp, anchored, best) ==
    LET now == IF Matching(prog, l) = {} THEN best
               ELSE <<l.t[FirstMatch(prog, l)].start, sp>>
        next == FoldLeft(LAMBDA n, t : StepThread(prog, s, t, n, sp), NoThreads, Alive(prog, l))
        started == IF now = NotFound /\ ~anchored
                   THEN AddThread(prog, s, next, 0, sp + 1, sp + 1) ELSE next
    IN  IF l.t = <<>> /\ (best # NotFound \/ anchored) THEN best
        ELSE IF sp >= Len(s.text) THEN now
        ELSE PikeRun(prog, s, started, sp + 1, anchored, now)

PikeFrom(prog, s, from, anchored) ==
    PikeRun(prog, s, AddThread(prog, s, NoThreads, 0, from, from), from, anchored, NotFound)
Lockstep(prog, s, forward) ==
    LET starts == {p \in 0 .. Len(s.text) : PikeFrom(prog, s, p, TRUE) # NotFound}
    IN  IF forward THEN PikeFrom(prog, s, 0, FALSE)
        ELSE IF starts = {} THEN NotFound
        ELSE PikeFrom(prog, s, CHOOSE p \in starts : \A q \in starts : q <= p, TRUE)

(* regex_search *)
RegexSearch ==
    \E t \in RegexTexts, b \in RegexBefore, fwd \in BOOLEAN :
      LET s == [text |-> t, before |-> b]
      IN  /\ regex # NotCompiled /\ found.text = <<>>
          /\ found' = [text |-> t, before |-> b, forward |-> fwd,
                       match |-> IF regex.simple THEN Lockstep(regex.prog, s, fwd)
                                 ELSE Backtracked(regex.prog, s, fwd)]
          /\ UNCHANGED regex

RegexNext == Compile \/ RegexSearch

-----------------------------------------------------------------------------
(* Properties *)

(* What a tree matches from a position on: where the matches end and what   *)
(* the group is then, the preferred ones first.                             *)
At1(sp, from, to) == [sp |-> sp, from |-> from, to |-> to]
RECURSIVE Ends(_, _, _)
Ends(t, s, e) ==
    LET Flat(ends, u) == FlattenSeq([i \in DOMAIN ends |-> Ends(u, s, ends[i])])
        Further(ends) == SelectSeq(ends, LAMBDA f : f.sp # e.sp)
        taken == StepInst(s, [op |-> t.op, a |-> t.c], e.sp)
        size == e.to - e.from
    IN  CASE t.op = "empty" -> <<e>>
          [] t.op = "seq" -> Flat(Ends(t.l, s, e), t.r)
          [] t.op = "alt" -> Ends(t.l, s, e) \o Ends(t.r, s, e)
          [] t.op = "opt" -> IF t.greedy THEN Ends(t.b, s, e) \o <<e>> ELSE <<e>> \o Ends(t.b, s, e)
          [] t.op = "star" -> LET more == Flat(Further(Ends(t.b, s, e)), t)
                              IN  IF t.greedy THEN more \o <<e>> ELSE <<e>> \o more
          [] t.op = "group" -> LET ends == Ends(t.b, s, [e EXCEPT !.from = e.sp])
                               IN  [i \in DOMAIN ends |-> [ends[i] EXCEPT !.to = ends[i].sp]]
          [] t.op = "ref" -> IF /\ e.from # -1 /\ e.to # -1 /\ size >= 0
                                /\ e.sp + size <= Len(s.text)
                                /\ SubSeq(s.text, e.from + 1, e.to)
                                     = SubSeq(s.text, e.sp + 1, e.sp + size)
                             THEN <<[e EXCEPT !.sp = @ + size]>> ELSE <<>>
          [] t.op \in Assertion -> IF Holds(s, t.op, e.sp) THEN <<e>> ELSE <<>>
          [] OTHER -> IF taken = 0 THEN <<>> ELSE <<[e EXCEPT !.sp = @ + taken]>>

(* Both engines find the first match, or the last when searching backward,  *)
(* and of those that start there the preferred one ("simulate all threads   *)
(* in lockstep, in priority order, which gives the same (leftmost-first)    *)
(* results as backtracking"): programs, loop marks, stamps, threads that    *)
(* wait for the rest of a character and the cutting off of threads change   *)
(* nothing of what the pattern's tree means.                                *)
FoundAsMeant ==
    LET s == [text |-> found.text, before |-> found.before]
        From(p) == Ends(regex.tree, s, At1(p, -1, -1))
        starts == {p \in 0 .. Len(s.text) : From(p) # <<>>}
        p == CHOOSE q \in starts : \A r \in starts : IF found.forward THEN q <= r ELSE r <= q
    IN  regex # NotCompiled /\ found.text # <<>> =>
          found.match = IF starts = {} THEN NotFound ELSE <<p, From(p)[1].sp>>
=============================================================================
