------------------------------- MODULE LineCarve -------------------------------
(***************************************************************************)
(* What scanLine does to a line before it is cut into tokens: it finds the *)
(* card numbers and the numbers hidden by their shape or their key, joins  *)
(* the two lists, and scans what lies between them, carrying the quote it  *)
(* is in from piece to piece.                                              *)
(*                                                                         *)
(* A line grows by one text of its alphabet at a time, so that every line  *)
(* over an alphabet up to MaxLength is a state.  The lengths of the code (cards of *)
(* 13 to 19 digits, groups of up to 8) are constants.  One character       *)
(* stands for a key with its ':' ("P" phone, "I" identity, "O" one-time    *)
(* code, "S" session), one ("c") for a word that speaks of cards.  The end *)
(* of a range is the position after it, as in the code.  Left out: dates   *)
(* of birth, single and escaped quotes, the glue characters '_', '@' and   *)
(* '%', header lines written as they are, and the label of a marker.       *)
(***************************************************************************)
EXTENDS Integers, Sequences, SequencesExt, FiniteSets

CONSTANTS
    Alphabets,               \* the sets of texts lines are put together from
    MaxLength,               \* bound: characters of a line
    Value,                   \* the value of each digit
    CardBINs,                \* issuer prefixes: [prefix, lengths]
    MinCard, MaxCard,        \* 13 and 19 digits
    MaxCC,                   \* digits of a country code: 3
    MinPhone, MaxPhone,      \* 8 and 15 digits
    MinKeyed,                \* 7 digits under a phone key
    MaxGroup, MaxGroups,     \* 8 digits in a group, 6 groups
    MaxArea,                 \* 4 digits in parentheses
    NanpGroup, NanpLine,     \* North American groups: 3 and 4 digits
    MinID, MaxID,            \* 6 and 15 digits under an identity key
    MinOTP, MaxOTP,          \* 4 and 8 digits under a code key
    MinSession               \* 10 digits under a session key

VARIABLES
    alphabet,   \* the texts this line is made of
    elevated,   \* ConfidenceThreshold is above 1.2
    line,       \* the line so far
    cards,      \* luhnRanges of the line
    nums,       \* its shaped numbers
    out         \* what scanLine makes of it: carved ranges, positions written,
                \* pieces scanned token by token

carveVars == <<alphabet, elevated, line, cards, nums, out>>

Digits == DOMAIN Value
Letters == {"a", "c"}
Keys == {"P", "I", "O", "S"}
\* What begins with a letter: a key does, and ends with ':'.
Words == Letters \cup Keys
IsDigit(l, i) == i \in DOMAIN l /\ l[i] \in Digits

\* The characters of a line are told apart, and the lengths are positive.
ASSUME LineAssumption ==
    /\ \A A \in Alphabets : A \subseteq Seq(STRING)
    /\ Digits \cap (Words \cup {" ", "-", ".", "+", "/", "(", ")", "?", "\"", "none"}) = {}
    /\ {MinCard, MaxCard, MaxCC, MinPhone, MaxPhone, MinKeyed, MaxGroup, MaxGroups, MaxArea,
        NanpGroup, NanpLine, MinID, MaxID, MinOTP, MaxOTP, MinSession} \subseteq Nat \ {0}
    /\ MaxLength \in Nat

\* The end of the run of digits at position i, at most max of them.
RunOf(l, i, max) ==
    CHOOSE j \in i..Len(l) + 1 : /\ j - i <= max
                                 /\ \A k \in i..j - 1 : l[k] \in Digits
                                 /\ j - i = max \/ ~IsDigit(l, j)

-----------------------------------------------------------------------------
(* Cards.                                                                  *)

\* digitsConnected: adjacent, or one space or dash apart.
DigitsConnected(l, p, q) == q - p = 1 \/ (q - p = 2 /\ l[p + 1] \in {" ", "-"})

\* isValidBoundary, on one side: c touches the digits, d is beyond it.
SideOK(c, d, letters) ==
    /\ c \notin letters \cup Digits
    /\ c \in {"-", "."} => d \notin letters
    /\ c = "." => d \notin Digits

At(l, i) == IF i \in DOMAIN l THEN l[i] ELSE "none"

IsValidBoundary(l, start, end) ==
    /\ SideOK(At(l, start - 1), At(l, start - 2), Letters)
    /\ SideOK(At(l, end), At(l, end + 1), Words)

\* validLuhnFromIndices: every second digit from the end counts double.
LuhnSum(ds) ==
    FoldLeft(LAMBDA sum, i : LET d == ds[i]
                             IN  sum + IF (Len(ds) - i) % 2 = 0 THEN d
                                       ELSE IF 2 * d > 9 THEN 2 * d - 9 ELSE 2 * d,
             0, [i \in 1..Len(ds) |-> i])

\* matchesCardBIN.
MatchesBIN(ds) == \E b \in CardBINs : Len(ds) \in b.lengths /\ IsPrefix(b.prefix, ds)

IsCard(ds) == Cardinality(ToSet(ds)) >= 2 /\ MatchesBIN(ds) /\ LuhnSum(ds) % 10 = 0

\* The positions of the digits of a line, in order.
DigitNext(l, found, i) == IF l[i] \in Digits THEN Append(found, i) ELSE found

DigitIndices(l) ==
    LET upTo[i \in 0..Len(l)] == IF i = 0 THEN <<>> ELSE DigitNext(l, upTo[i - 1], i)
    IN  upTo[Len(l)]

\* Mutant: the run is not followed, only the digits that are left count.
RunEndAny(l, at, e) == Len(at) + 1

\* The loop that moves runEnd on from e: one past the last digit connected to
\* the ones before.
RunEnd(l, at, e) ==
    CHOOSE r \in e..Len(at) + 1 :
        /\ \A k \in e..r - 1 : DigitsConnected(l, at[k - 1], at[k])
        /\ r <= Len(at) => ~DigitsConnected(l, at[r - 1], at[r])

Max2(a, b) == IF a > b THEN a ELSE b
Min2(a, b) == IF a < b THEN a ELSE b

\* The window of L digits from the i-th on, and whether it is a card.
Window(at, i, L) == [start |-> at[i], end |-> at[i + L - 1] + 1]
Fits(l, at, i, L) ==
    /\ IsValidBoundary(l, Window(at, i, L).start, Window(at, i, L).end)
    /\ IsCard([k \in 1..L |-> Value[l[at[i + k - 1]]]])

WindowNext(l, at, i, found, L) ==
    IF Fits(l, at, i, L) THEN Append(found, Window(at, i, L)) ELSE found

\* The cards that start with the i-th digit and stay inside its run.
Windows(l, at, i, runEnd) ==
    LET maxLen  == Min2(Min2(MaxCard, Len(at) - i + 1), runEnd - i)
        lengths == Max2(0, maxLen - MinCard + 1)
        upTo[n \in 0..lengths] ==
            IF n = 0 THEN <<>> ELSE WindowNext(l, at, i, upTo[n - 1], MinCard + n - 1)
    IN  upTo[lengths]

\* mergeRanges: neighbours that overlap or touch become one.
Joined(r, s) == [start |-> r.start, end |-> Max2(r.end, s.end)]

MergeNext(merged, r) ==
    IF merged # <<>> /\ r.start <= Last(merged).end
    THEN Append(Front(merged), Joined(Last(merged), r))
    ELSE Append(merged, r)

MergeRanges(rs) ==
    LET upTo[n \in 0..Len(rs)] == IF n = 0 THEN <<>> ELSE MergeNext(upTo[n - 1], rs[n])
    IN  upTo[Len(rs)]

\* The windows of the next start, in the run that is followed from where it was.
LuhnNext(l, at, acc, i) ==
    LET e == RunEnd(l, at, Max2(acc.runEnd, i + 1))
    IN  [runEnd |-> e, out |-> acc.out \o Windows(l, at, i, e)]

LuhnRanges(l, at) ==
    LET starts == Max2(0, Len(at) - MinCard + 1)
        upTo[i \in 0..starts] ==
            IF i = 0 THEN [runEnd |-> 1, out |-> <<>>] ELSE LuhnNext(l, at, upTo[i - 1], i)
    IN  upTo[starts].out

FindLuhnSequences(l) == MergeRanges(LuhnRanges(l, DigitIndices(l)))

\* With an elevated confidence threshold a line must speak of cards.
CardRanges(l, elev) == IF elev /\ "c" \notin ToSet(l) THEN <<>> ELSE FindLuhnSequences(l)

-----------------------------------------------------------------------------
(* Numbers hidden by their shape or their key.                             *)

PhoneGlue(c) == c \in Letters \cup Digits \cup {"+", "-", ".", "/"}

\* Mutant: a point or dash may follow, with digits behind it.
GluedByLetter(l, end) == At(l, end) \in Words \cup Digits \cup {"/", "+"}

PhoneGluedAfter(l, end) ==
    \/ At(l, end) \in Words \cup Digits \cup {"/", "+"}
    \/ At(l, end) \in {"-", "."} /\ IsDigit(l, end + 1)

\* insideURL: a '?' before it in the same token.
InsideURL(l, i) ==
    \E j \in 1..i - 1 : l[j] = "?" /\ \A k \in j..i - 1 : l[k] \notin {" ", "\""}

SkipPhoneRun(l, i) == IF l[i] \in Digits THEN RunOf(l, i, Len(l)) ELSE i + 1

\* One round of the loop of matchPhoneGroups: groups of digits behind one and
\* the same separator, which is noted before its group is read.  The first
\* group may be an area code in parentheses; a space behind it is no separator.
PhoneGroup(l, m, parens, g) ==
    LET s     == At(l, m.next)
        isSep == s \in {" ", "-", "."}
        k     == IF isSep THEN m.next + 1 ELSE m.next
        noted == IF isSep THEN [m EXCEPT !.sep = s, !.dots = @ + IF s = "." THEN 1 ELSE 0] ELSE m
        close == RunOf(l, k + 1, MaxArea)
        stop  == RunOf(l, k, MaxGroup)
        space == At(l, close + 1) = " " /\ IsDigit(l, close + 2)
    IN  IF \/ m.done
           \/ isSep /\ m.sep \notin {"none", s}
           \/ ~isSep /\ g > 1 /\ ~m.afterArea
        THEN [m EXCEPT !.done = TRUE]
        ELSE IF parens /\ g = 1 /\ At(l, k) = "("
        THEN IF close = k + 1 \/ At(l, close) # ")" THEN [noted EXCEPT !.done = TRUE]
             ELSE [noted EXCEPT !.end = close + 1, !.digits = @ + close - k - 1,
                                !.next = IF space THEN close + 2 ELSE close + 1,
                                !.sep = "none", !.afterArea = space]
        ELSE IF stop = k \/ IsDigit(l, stop) THEN [noted EXCEPT !.done = TRUE]
        ELSE [noted EXCEPT !.end = stop, !.digits = @ + stop - k, !.next = stop,
                           !.afterArea = FALSE]

PhoneGroups(l, m, parens) ==
    LET upTo[g \in 0..MaxGroups] == IF g = 0 THEN m ELSE PhoneGroup(l, upTo[g - 1], parens, g)
    IN  upTo[MaxGroups]

\* One '.' is a decimal point.
NotDecimal(m) == IF m.dots = 1 THEN [m EXCEPT !.end = 0, !.digits = 0] ELSE m

MatchPhoneGroups(l, j, have, parens) ==
    NotDecimal(PhoneGroups(l, [end |-> 0, next |-> j, digits |-> have, sep |-> "none", dots |-> 0,
                               afterArea |-> FALSE, done |-> FALSE], parens))

InPhone(end, digits, min) == IF digits \in min..MaxPhone THEN end ELSE 0
PhoneOf(m, min) == InPhone(m.end, m.digits, min)

\* A country code and the rest in one run, or the rest in groups.
MatchInternationalPhone(l, i) ==
    LET cc  == RunOf(l, i + 1, MaxCC)
        run == RunOf(l, i + 1, Len(l))
    IN  IF cc = i + 1 THEN 0
        ELSE IF run > cc THEN InPhone(run, run - i - 1, MinPhone)
        ELSE PhoneOf(MatchPhoneGroups(l, cc, cc - i - 1, TRUE), MinPhone)

DigitGroup(l, j, k) == \A i \in j..j + k - 1 : IsDigit(l, i)
StartsNanp(l, j) == DigitGroup(l, j, NanpGroup) /\ Value[l[j]] >= 2

\* matchNANPPhone: the area code in parentheses, or one separator throughout.
MatchNANPPhone(l, i) ==
    LET paren == l[i] = "("
        area  == IF paren THEN i + 1 ELSE i
        sep   == area + NanpGroup
        exch  == IF paren /\ At(l, sep + 1) = " " THEN sep + 2 ELSE sep + 1
        dash  == exch + NanpGroup
        end   == dash + 1 + NanpLine
    IN  IF /\ StartsNanp(l, area)
           /\ At(l, sep) \in IF paren THEN {")"} ELSE {"-", "."}
           /\ StartsNanp(l, exch)
           /\ At(l, dash) \in IF paren THEN {"-", " ", "."} ELSE {At(l, sep)}
           /\ DigitGroup(l, dash + 1, NanpLine) /\ ~IsDigit(l, end)
        THEN end ELSE 0

\* phoneKeyBefore: a parenthesis, a quote and spaces may stand between the key
\* and its value; glued to a letter or digit the key is another word.
KeyBefore(l, i) ==
    LET p == IF At(l, i - 1) = "(" THEN i - 2 ELSE i - 1
        q == IF At(l, p) = "\"" THEN p - 1 ELSE p
        k == CHOOSE k \in 0..Max2(0, q) : (\A n \in k + 1..q : l[n] = " ") /\ At(l, k) # " "
    IN  IF At(l, k - 1) \in Letters \cup Digits THEN "none" ELSE At(l, k)

GroupedOr(m, end, digits) == IF m.end = 0 THEN InPhone(end, digits, MinKeyed) ELSE PhoneOf(m, MinKeyed)

MatchKeyedPhone(l, i) ==
    LET group == RunOf(l, i, MaxGroup)
        run   == RunOf(l, i, Len(l))
    IN  IF run > group THEN InPhone(run, run - i, MinKeyed)
        ELSE GroupedOr(MatchPhoneGroups(l, group, group - i, FALSE), group, group - i)

\* matchGroupedDigits: up to the first character that is neither a digit nor
\* a single separator between two; spaces only inside quotes.
MatchGroupedDigits(l, i, min, max) ==
    LET seps   == {"-", "."} \cup IF At(l, i - 1) = "\"" THEN {" "} ELSE {}
        Goes(j) == IsDigit(l, j) \/ (At(l, j) \in seps /\ IsDigit(l, j - 1) /\ IsDigit(l, j + 1))
        end    == CHOOSE j \in i..Len(l) + 1 : ~Goes(j) /\ \A k \in i..j - 1 : Goes(k)
        n      == Cardinality({k \in i..end - 1 : IsDigit(l, k)})
    IN  IF n \in min..max THEN end ELSE 0

MatchSessionNumber(l, i) == LET j == RunOf(l, i, Len(l)) IN IF j - i >= MinSession THEN j ELSE 0

KeyedEnd(l, i, key) ==
    CASE key = "P" -> MatchKeyedPhone(l, i)
      [] key = "I" -> MatchGroupedDigits(l, i, MinID, MaxID)
      [] key = "O" -> MatchGroupedDigits(l, i, MinOTP, MaxOTP)
      [] key = "S" -> MatchSessionNumber(l, i)
      [] OTHER -> 0

MatchKeyedNumber(l, i) == KeyedEnd(l, i, KeyBefore(l, i))

ShapedEnd(l, i) ==
    IF l[i] = "+" THEN MatchInternationalPhone(l, i)
    ELSE IF l[i] = "(" \/ MatchNANPPhone(l, i) > 0 THEN MatchNANPPhone(l, i)
    ELSE MatchKeyedNumber(l, i)

\* The loop of findShapedNumbers at position i, behind what was taken or skipped.
ShapedThen(l, acc, i, end) ==
    IF end > 0 /\ ~PhoneGluedAfter(l, end) /\ ~InsideURL(l, i)
    THEN [next |-> end, out |-> Append(acc.out, [start |-> i, end |-> end])]
    ELSE [acc EXCEPT !.next = SkipPhoneRun(l, i)]

ShapedNext(l, acc, i) ==
    IF i < acc.next \/ l[i] \notin Digits \cup {"+", "("} THEN acc
    ELSE ShapedThen(l, acc, i, IF PhoneGlue(At(l, i - 1)) THEN 0 ELSE ShapedEnd(l, i))

FindShapedNumbers(l) ==
    LET upTo[i \in 0..Len(l)] ==
            IF i = 0 THEN [next |-> 1, out |-> <<>>] ELSE ShapedNext(l, upTo[i - 1], i)
    IN  upTo[Len(l)].out

-----------------------------------------------------------------------------
(* The line.                                                               *)

\* mergeCarves: in line order; a card that overlaps a number is dropped.
TakeCard(m, cs) == [i |-> m.i + 1, j |-> m.j, out |-> Append(m.out, cs[m.i])]
TakeNumber(m, ns) == [i |-> m.i, j |-> m.j + 1, out |-> Append(m.out, ns[m.j])]

CarveNext(m, cs, ns) ==
    IF m.j > Len(ns) THEN TakeCard(m, cs)
    ELSE IF m.i > Len(cs) THEN TakeNumber(m, ns)
    ELSE IF ns[m.j].end <= cs[m.i].start THEN TakeNumber(m, ns)
    ELSE IF cs[m.i].end <= ns[m.j].start THEN TakeCard(m, cs)
    ELSE [i |-> m.i + 1, j |-> m.j, out |-> m.out]

MergeCarves(cs, ns) ==
    LET upTo[n \in 0..Len(cs) + Len(ns)] ==
            IF n = 0 THEN [i |-> 1, j |-> 1, out |-> <<>>] ELSE CarveNext(upTo[n - 1], cs, ns)
    IN  upTo[Len(cs) + Len(ns)].out

\* Up to two diff markers at the start of a line are no part of it.
DiffMarkers(l) ==
    LET Marker(i) == At(l, i) \in {"+", "-"}
        n == IF Marker(1) THEN IF Marker(2) THEN 2 ELSE 1 ELSE 0
    IN  IF n < Len(l) THEN n ELSE 0

Scanned(l) == SubSeq(l, DiffMarkers(l) + 1, Len(l))

Quoted(l, c) == At(l, c.start - 1) = "\"" /\ At(l, c.end) = "\""

\* Mutant: every piece starts outside quotes.
Fresh(inQuote) == FALSE

\* A value carved out of quotes takes its quotes along.
Taken(l, c) == IF Quoted(l, c) THEN [start |-> c.start - 1, end |-> c.end + 1] ELSE c

Carried(inQuote) == inQuote

\* scanSegmentFrom, as far as its quotes go.
QuoteAfter(l, from, to, inQuote) ==
    IF Cardinality({i \in from..to - 1 : l[i] = "\""}) % 2 = 0 THEN inQuote ELSE ~inQuote

Positions(from, to) == [i \in 1..Max2(0, to - from) |-> from + i - 1]

\* A piece of the line between two carves: where it starts and the quote
\* state it is scanned in; written are the positions that reach the output,
\* a carved value as its marker.
Piece(l, acc, to) ==
    [acc EXCEPT !.written = @ \o Positions(acc.chunk, to),
                !.inQuote = QuoteAfter(l, acc.chunk, to, @),
                !.pieces  = Append(@, [at |-> acc.chunk, inQuote |-> acc.inQuote])]

ScanCarve(l, acc, c) ==
    LET t      == Taken(l, c)
        before == IF t.start > acc.chunk THEN Piece(l, acc, t.start) ELSE acc
        quote  == IF Quoted(l, c) THEN <<c.start - 1>> ELSE <<>>
        close  == IF Quoted(l, c) THEN <<c.end>> ELSE <<>>
    IN  [before EXCEPT !.written = @ \o quote \o Positions(c.start, c.end) \o close,
                       !.inQuote = Carried(@),
                       !.chunk = t.end]

ScanCarves(l, carves) ==
    LET upTo[n \in 0..Len(carves)] ==
            IF n = 0 THEN [chunk |-> 1, inQuote |-> FALSE, written |-> <<>>, pieces |-> <<>>,
                           carves |-> carves]
            ELSE ScanCarve(l, upTo[n - 1], carves[n])
    IN  upTo[Len(carves)]

ScanRest(l, acc) == IF acc.chunk <= Len(l) THEN Piece(l, acc, Len(l) + 1) ELSE acc

CarveInit ==
    /\ alphabet \in Alphabets
    /\ elevated \in BOOLEAN
    /\ line = <<>> /\ cards = <<>> /\ nums = <<>>
    /\ out = ScanCarves(<<>>, <<>>)

\* scanLine, on the line one text longer.
NextLine ==
    /\ \E t \in alphabet : Len(line) + Len(t) <= MaxLength /\ line' = line \o t
    /\ cards' = CardRanges(Scanned(line'), elevated)
    /\ nums' = FindShapedNumbers(Scanned(line'))
    /\ out' = ScanRest(Scanned(line'), ScanCarves(Scanned(line'), MergeCarves(cards', nums')))
    /\ UNCHANGED <<alphabet, elevated>>

LineSpec == CarveInit /\ [][NextLine]_carveVars

-----------------------------------------------------------------------------
(* Properties.                                                             *)

Bytes(rs) == UNION {r.start..r.end - 1 : r \in ToSet(rs)}

\* The k-th of a set of positions, from the left.
Nth(D, k) == CHOOSE p \in D : Cardinality({q \in D : q <= p}) = k

\* A range of a line is a card number by its definition: digits one by one or
\* a space or dash apart, with nothing glued to them.
IsCardRange(l, start, end) ==
    LET D == {p \in start..end - 1 : IsDigit(l, p)}
    IN  /\ start \in D /\ end - 1 \in D
        /\ Cardinality(D) \in MinCard..MaxCard
        /\ \A p, q \in D : p < q /\ (p + 1..q - 1) \cap D = {} => DigitsConnected(l, p, q)
        /\ IsValidBoundary(l, start, end)
        /\ IsCard([k \in 1..Cardinality(D) |-> Value[l[Nth(D, k)]]])

\* FindLuhnSequences, which follows each run of digits once and merges what
\* it finds, returns the bytes of exactly the ranges that are card numbers by
\* definition, in order and apart.
CardsExact ==
    LET l == Scanned(line)
        exact == {r \in (1..Len(l)) \X (1..Len(l) + 1) : IsCardRange(l, r[1], r[2])}
    IN  ~elevated =>
            /\ \A i \in 1..Len(cards) - 1 : cards[i].end < cards[i + 1].start
            /\ Bytes(cards) = UNION {r[1]..r[2] - 1 : r \in exact}

\* The characters on both sides of position i are one number: a run of digits,
\* or a decimal cut at its point.
InsideNumber(l, i) ==
    \/ IsDigit(l, i - 1) /\ IsDigit(l, i)
    \/ IsDigit(l, i - 1) /\ At(l, i) = "." /\ IsDigit(l, i + 1)
    \/ IsDigit(l, i - 2) /\ At(l, i - 1) = "." /\ IsDigit(l, i)

\* What is carved is in order and apart, and is never a part of a longer run
\* of digits or of a decimal number: no half of a number is hidden and the
\* rest left.  No shaped number is lost to a card (mergeCarves,
\* isValidBoundary, phoneGlue, phoneGluedAfter).
CarvesWhole ==
    /\ \A i \in 1..Len(out.carves) - 1 : out.carves[i].end <= out.carves[i + 1].start
    /\ \A c \in ToSet(out.carves) :
           ~InsideNumber(Scanned(line), c.start) /\ ~InsideNumber(Scanned(line), c.end)
    /\ ToSet(nums) \subseteq ToSet(out.carves)

\* Two carved values with one quote between them.
SharedQuote ==
    \E c, d \in ToSet(out.carves) :
        Quoted(Scanned(line), c) /\ Quoted(Scanned(line), d) /\ d.start = c.end + 1

\* Every byte of the line reaches the output once and in its place, a marker
\* standing for what is carved, and a piece behind a carved number is scanned
\* inside quotes exactly when it is inside quotes in the line, except where
\* two carved values share a quote (scanLine, scanSegmentFrom).
QuotesKept ==
    SharedQuote \/
        /\ out.written = Positions(1, Len(Scanned(line)) + 1)
        /\ \A p \in ToSet(out.pieces) : p.inQuote = QuoteAfter(Scanned(line), 1, p.at, FALSE)

\* The comment of mergeCarves: where a card and a shaped number overlap, the
\* digits are hidden either way.
HiddenEitherWay == Bytes(cards) \subseteq Bytes(out.carves)
================================================================================
