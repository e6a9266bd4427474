---------------------------- MODULE ConfigParser ----------------------------
(***************************************************************************)
(* The parser of the configuration string, drivers/config.c: the passes of *)
(* config_find_devices over it, which make the devices and their           *)
(* resources.                                                              *)
(*                                                                         *)
(* A string is a sequence of tokens: words, quoted strings, braces and     *)
(* semicolons, with white space in between.  Pointers into it are indices. *)
(* parse_config_string calls itself for each block; here the calls under   *)
(* way are the sequence "blocks", and a pass is its steps until the first  *)
(* call returns.                                                           *)
(***************************************************************************)
EXTENDS Integers, Sequences, FiniteSets, SequencesExt, Functions

CONSTANTS
    Fragments,     \* what a string is put together from: sequences of tokens
    MaxFragments,  \* bound: fragments of a string
    Numerals,      \* words that are numbers
    Sign,          \* Sign[w]: -1 for one that begins with '-', 1 otherwise
    Radix,         \* Radix[w]: 16 for one with 0x, 10 otherwise
    Digits,        \* Digits[w]: its digits
    U64            \* 2^64

VARIABLES
    config,     \* the string
    fragments   \* fragments so far

configVars == <<config, fragments>>

-----------------------------------------------------------------------------
\* Tokens.

Eos       == "eos"                 \* the end of the string, no token of it
LBrace    == "{"
RBrace    == "}"
Semicolon == ";"
Punct     == {LBrace, RBrace, Semicolon}
Quoted    == "quoted"
Keywords  == {"mem"}               \* and irq and bus
IsWord(t) == t \notin Punct \cup {Quoted, Eos}
At(p)     == IF p <= Len(config) THEN config[p] ELSE Eos

ASSUME FragmentsAssumption ==
    \A f \in Fragments : f \in Seq(STRING) /\ \A i \in DOMAIN f : f[i] # Eos

ConfigInit == config = <<>> /\ fragments = 0
ConfigOff  == config = <<>> /\ fragments = MaxFragments

\* Every string of so many fragments is tried.
Grow ==
    /\ fragments < MaxFragments
    /\ \E f \in Fragments : config' = config \o f
    /\ fragments' = fragments + 1

\* parse_u64_dec and parse_u64_hex: digits are taken until the product no
\* longer fits.  The sum is not looked at.
TakeDigits(digits, radix) ==
    FoldLeft(LAMBDA r, digit :
                IF r.full \/ r.value * radix >= U64 THEN [r EXCEPT !.full = TRUE]
                ELSE [r EXCEPT !.value = (@ * radix + digit) % U64],
             [full |-> FALSE, value |-> 0], digits)

Taken(w) == TakeDigits(Digits[w], Radix[w])

\* parse_u64 ends where skip_key does.  It takes no character of an empty key,
\* nor does skip_key of a brace.
IsNumber(t) == \/ t \in {"", RBrace}
               \/ t \in Numerals /\ ~Taken(t).full
Value(t) == IF t \in Numerals THEN (Sign[t] * Taken(t).value) % U64 ELSE 0

-----------------------------------------------------------------------------
\* The parser.  Its state: position, index of the next root, the roots
\* marked, the devices so far, the names written, the key of the current
\* item, the blocks; crash is set when it follows a null parent.
\*
\* A parent is the sequence of the keys that lead to it: <<>> is null, whose
\* path is a constant and not written.  Ghosts: seen has every value and
\* block in order, with the keys that lead to it, and "at" of a device the
\* keys of the blocks around it.

Inner(st) == Last(st.blocks)

\* The innermost call goes on with b.
WithInner(blocks, b) == [blocks EXCEPT ![Len(blocks)] = b]

\* parse_interface
ParseInterface(st, target, t) ==
    [st EXCEPT !.names = Append(@, <<t>>),
               !.devices = IF target = 0 THEN @ ELSE [@ EXCEPT ![target].override = t]]

AddResource(st, target, path, from, to) ==
    [st EXCEPT !.names = Append(@, path),
               !.devices[target].resources =
                    Append(@, [name |-> path, start |-> from, end |-> to])]

\* Mutant: the name of a range is the path of its own block.
ParseRangeOwnPath(st, b, t) ==
    IF ~IsNumber(st.key) \/ ~IsNumber(t) \/ b.target = 0 THEN st
    ELSE AddResource(st, b.target, b.parent, Value(st.key), Value(t))

ParseRange(st, b, t) ==
    IF ~IsNumber(st.key) \/ ~IsNumber(t) \/ b.target = 0 THEN st
    ELSE IF b.parent = <<>> THEN [st EXCEPT !.crash = TRUE]
    ELSE AddResource(st, b.target, Front(b.parent), Value(st.key), Value(t))

ParseSingle(st, b, t) ==
    IF ~IsNumber(t) \/ b.target = 0 THEN st
    ELSE AddResource(st, b.target, b.parent, Value(t), Value(t))

\* What the branches for a quoted string and for a word call, in this order.
ParseValue(st, b, t) ==
    LET s1 == IF b.stage = "first" /\ b.key = "interface"
              THEN ParseInterface(st, b.target, t) ELSE st
        s2 == IF b.flags THEN ParseRange(s1, b, t) ELSE s1
    IN  IF t = Quoted THEN s1
        ELSE IF b.key \in Keywords THEN ParseSingle(s2, b, t) ELSE s2

NewDevice(parent, at, p) ==
    [name |-> parent, resources |-> <<>>, override |-> "", start |-> p, end |-> p, at |-> at]

\* parse_config_string is called.
Call(st, parent, flags, target, at) ==
    LET marked  == st.root \in st.roots
        devices == IF marked THEN Append(st.devices, NewDevice(parent, at, st.pos))
                             ELSE st.devices
        block   == [root |-> st.root, flags |-> flags, at |-> at,
                    parent |-> IF marked THEN <<>> ELSE parent,
                    target |-> IF marked THEN Len(devices) ELSE target,
                    key |-> "", stage |-> "item"]
    IN  [st EXCEPT !.root = @ + 1, !.devices = devices, !.blocks = Append(@, block),
                   !.names = IF marked THEN Append(@, parent) ELSE @]

\* An item: its key, or the empty one.
BeginItem(st) ==
    LET t   == At(st.pos)
        b   == Inner(st)
        key == IF IsWord(t) THEN t ELSE ""
    IN  [st EXCEPT !.pos = IF IsWord(t) THEN @ + 1 ELSE @,
                   !.key = key,
                   !.roots = IF key = "interface" THEN @ \cup {b.root} ELSE @,
                   !.blocks = WithInner(@, [b EXCEPT !.key = key, !.stage = "first"])]

\* The token at hand is over, and with it the first value of the item.
Seen(st) ==
    LET b == Inner(st)
    IN  [st EXCEPT !.pos = @ + 1,
                   !.seen = Append(@, [path |-> Append(b.at, b.key), pos |-> st.pos]),
                   !.blocks = WithInner(@, [b EXCEPT !.stage = "rest"])]

TakeValue(st) == Seen(ParseValue(st, Inner(st), At(st.pos)))

\* The key in the parent's path is that of the last item begun.
OpenBlock(st) ==
    LET b == Inner(st)
    IN  Call(Seen(st), Append(b.parent, st.key), b.key \in Keywords, b.target,
             Append(b.at, b.key))

\* The window of a device ends with its last item.
EndItem(st) ==
    LET b   == Inner(st)
        pos == IF At(st.pos) = Semicolon THEN st.pos + 1 ELSE st.pos
    IN  [st EXCEPT !.pos = pos,
                   !.devices = IF b.root \in st.roots /\ b.target # 0
                               THEN [@ EXCEPT ![b.target].end = pos] ELSE @,
                   !.blocks = WithInner(@, [b EXCEPT !.stage = "item"])]

\* Mutant: the caller goes on with its own count of roots.
CloseBlockOwnRoots(st) ==
    [st EXCEPT !.pos = IF Len(st.blocks) > 1 /\ At(@) = RBrace THEN @ + 1 ELSE @,
               !.root = Inner(st).root + 1,
               !.blocks = Front(@)]

\* The call returns; its caller skips the brace.
CloseBlock(st) ==
    [st EXCEPT !.pos = IF Len(st.blocks) > 1 /\ At(@) = RBrace THEN @ + 1 ELSE @,
               !.blocks = Front(@)]

Over(st) == st.crash \/ st.blocks = <<>>

Step(st) ==
    LET t == At(st.pos)
    IN  IF Over(st) THEN st
        ELSE IF Inner(st).stage = "item"
        THEN IF t \in {Eos, RBrace} THEN CloseBlock(st) ELSE BeginItem(st)
        ELSE IF t \in {Eos, Semicolon} THEN EndItem(st)
        ELSE IF t = LBrace THEN OpenBlock(st)
        ELSE TakeValue(st)

\* A pass with these marks: its state after n steps, as a set of one, and
\* after enough of them.
StartPass(roots) ==
    Call([pos |-> 1, root |-> 1, roots |-> roots, devices |-> <<>>, names |-> <<>>,
          key |-> "", crash |-> FALSE, seen |-> <<>>, blocks |-> <<>>], <<>>, FALSE, 0, <<>>)
After(roots) ==
    LET after[n \in Nat] ==
            IF n = 0 THEN {StartPass(roots)} ELSE {Step(st) : st \in after[n - 1]}
    IN  after
Steps == 4 * Len(config) + 4
Pass(roots) == CHOOSE st \in After(roots)[Steps] : TRUE

\* The passes of config_find_devices: pass 0 only marks the roots.
Pass0 == Pass({})
Pass1 == Pass(Pass0.roots)

-----------------------------------------------------------------------------
\* A device declared right in an irq, bus or mem block: the parent of the
\* ranges in it is gone.
InKeyword(d) == d.at # <<>> /\ Last(d.at) \in Keywords

Disjoint(d, e) == d.end <= e.start \/ e.end <= d.start
Inside(d, e)   == e.start < d.start /\ d.end <= e.end

InSync(pass0, pass1) ==
    /\ pass0.root - 1 <= Len(config) \/ Range(config) \subseteq {LBrace}
    /\ pass0.blocks = <<>> /\ ~pass0.crash
    /\ pass1.crash => \E d \in Range(pass1.devices) : InKeyword(d)
    /\ ~pass1.crash =>
          /\ pass1.blocks = <<>>
          /\ Len(pass1.devices) = Cardinality(pass0.roots)
          /\ pass1.roots = pass0.roots /\ pass1.root = pass0.root /\ pass1.pos = pass0.pos
          /\ \A i, j \in DOMAIN pass1.devices :
                LET d == pass1.devices[i]  e == pass1.devices[j]
                IN  i < j => Disjoint(d, e) \/ Inside(e, d)

\* The three passes of config_find_devices agree and come to their end: as
\* many devices as roots were marked, in as many marks as were allocated (but
\* for a string of opening braces only, one less).  The windows of the devices
\* are nested or disjoint.  parse_range follows a null parent only for a
\* device declared right in a keyword's block.
DevicesRight == InSync(Pass0, Pass1)
=============================================================================
