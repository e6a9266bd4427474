---------------------------- MODULE ConfigString ----------------------------
(***************************************************************************)
(* The lookups of config_string_u64, drivers/config.c, by find_key, which  *)
(* the code says is kept "in sync with parse_config_string"; and what the  *)
(* parser and the lookups should find.  Recursive as the code is.          *)
(***************************************************************************)
EXTENDS ConfigParser

-----------------------------------------------------------------------------
\* find_key(start, end, name, take): name is a sequence of keys.

RECURSIVE FindKey(_, _, _, _), FindValue(_, _, _, _, _)

\* Mutant: a block that is not the one looked for is not skipped as a whole.
SkipBlockFlat(p, end) == p

\* A block that is passed over, with its closing brace.
SkipBlock(p, end) ==
    LET q == FindKey(p, end, <<>>, FALSE) IN IF At(q) = RBrace THEN q + 1 ELSE q

FindKey(start, end, name, take) ==
    IF start >= end \/ At(start) = RBrace THEN start
    ELSE
    LET hasKey == IsWord(At(start))
        key    == IF hasKey THEN At(start) ELSE ""
        r      == FindValue(IF hasKey THEN start + 1 ELSE start, end, name, take, key)
    IN  IF r.stop THEN r.pos
        ELSE FindKey(IF At(r.pos) = Semicolon THEN r.pos + 1 ELSE r.pos, end, name, take)

FindValue(p, end, name, take, key) ==
    LET full   == name = <<key>>
        prefix == Len(name) > 1 /\ Head(name) = key
    IN  IF p >= end \/ At(p) = Semicolon THEN [stop |-> FALSE, pos |-> p]
        ELSE IF At(p) = LBrace
        THEN IF take /\ prefix
             THEN [stop |-> TRUE, pos |-> FindKey(p + 1, end, Tail(name), TRUE)]
             ELSE FindValue(SkipBlock(p + 1, end), end, name, take, key)
        ELSE IF take /\ full THEN [stop |-> TRUE, pos |-> p]
        ELSE FindValue(p + 1, end, name, take, key)

Lookup(dev, name) == FindKey(dev.start, dev.end, name, TRUE)

\* config_string_u64: 0 if there is no value, or none that is a number.
config_string_u64(dev, name) ==
    LET p == Lookup(dev, name)
    IN  IF p >= dev.end \/ ~IsNumber(At(p)) THEN 0 ELSE Value(At(p))

-----------------------------------------------------------------------------
\* What the passes and the lookups should agree on.

Within(p, d) == d.start <= p /\ p < d.end
Rel(v, d)    == SubSeq(v.path, Len(d.at) + 1, Len(v.path))

\* The device of a value is the innermost one around it.
OwnedBy(v, d, devices) ==
    /\ Within(v.pos, d)
    /\ \A e \in devices : Within(v.pos, e) => e.start <= d.start

\* The resources that the value v of the device d stands for.
RangeOf(v, d) ==
    LET rel == Rel(v, d) IN
    IF Len(rel) > 1 /\ rel[Len(rel) - 1] \in Keywords /\ IsNumber(Last(rel))
       /\ IsNumber(At(v.pos)) /\ At(v.pos) # Quoted
    THEN <<[name |-> SubSeq(rel, 1, Len(rel) - 2),
            start |-> Value(Last(rel)), end |-> Value(At(v.pos))]>>
    ELSE <<>>
SingleOf(v, d) ==
    LET rel == Rel(v, d) IN
    IF Last(rel) \in Keywords /\ IsNumber(At(v.pos))
    THEN <<[name |-> Front(rel), start |-> Value(At(v.pos)), end |-> Value(At(v.pos))]>>
    ELSE <<>>

ResourcesOf(d, seen, devices) ==
    LET own == SelectSeq(seen, LAMBDA v : OwnedBy(v, d, devices))
    IN  FlattenSeq([i \in 1..Len(own) |-> RangeOf(own[i], d) \o SingleOf(own[i], d)])

\* Every block is followed by a semicolon, as in every string in use.
BlocksEndItems == \A p \in 1..Len(config) : At(p) = RBrace => At(p + 1) = Semicolon

\* The parser makes the resources that stand in the windows of the devices,
\* under their names.
ResourcesRight(pass1) ==
    LET devices == Range(pass1.devices)
    IN  BlocksEndItems /\ ~pass1.crash =>
            \A d \in devices : d.resources = ResourcesOf(d, pass1.seen, devices)

\* The number that a word is written as.
Written(w) == FoldLeft(LAMBDA n, digit : n * Radix[w] + digit, 0, Digits[w])

LookupsAgree(pass1) ==
    LET names == UNION {{SubSeq(v.path, i, Len(v.path)) : i \in DOMAIN v.path} :
                        v \in Range(pass1.seen)}
    IN  ~pass1.crash =>
        \A d \in Range(pass1.devices), name \in names :
            LET within    == {v \in Range(pass1.seen) : Within(v.pos, d)}
                blocks(n) == {v \in within : At(v.pos) = LBrace /\ Rel(v, d) = n}
                places    == {v.pos : v \in {v \in within : At(v.pos) # LBrace /\ Rel(v, d) = name}}
                p == Lookup(d, name)
                n == config_string_u64(d, name)
            IN  \/ /\ p \in places /\ \A q \in places : p <= q
                   /\ n = IF At(p) \notin Numerals THEN 0
                          ELSE IF Written(At(p)) < U64
                          THEN (Sign[At(p)] * Written(At(p))) % U64
                          ELSE IF IsNumber(At(p)) THEN Value(At(p)) ELSE 0
                \/ /\ p \notin places /\ n = 0
                   /\ p >= d.end \/ At(p) = RBrace
                   /\ \/ places = {}
                      \/ \E i \in 1..Len(name) - 1 :
                            Cardinality(blocks(SubSeq(name, 1, i))) > 1

\* A value is found under its name in the window of its device.  The parser
\* makes the resources that stand right in the window.  config_string_u64
\* finds the value that the parser sees first under the name, and returns the
\* number written there: of one over 64 bits it returns 0, or what is left of
\* it when only the last digit is too much.  A name that is not there ends the
\* search at the end or at a brace, which reads as 0.  Of two blocks of one
\* name only the first is searched.
ValuesRight == LET pass1 == Pass1 IN ResourcesRight(pass1) /\ LookupsAgree(pass1)
=============================================================================
