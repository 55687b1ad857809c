-------------------------------- MODULE Line --------------------------------
(***************************************************************************)
(* The lines of katcp/line.c and the parser of katcp/parse.c: messages are *)
(* written to a descriptor, escaped and in pieces, and put together again  *)
(* at the other end.                                                       *)
(*                                                                         *)
(* A chain of connections: hop i leads from a line that writes to a line   *)
(* that reads, and whoever owns the latter relays every message it gets to *)
(* the next hop (katcp/server.c, par/par.c, mpx/mpx.c).  Messages are      *)
(* sequences of arguments, and arguments sequences of characters, since    *)
(* the subject here is how these are encoded.                              *)
(***************************************************************************)
EXTENDS Integers, Sequences, SequencesExt

CONSTANTS
    Chains,     \* numbers of connections in a chain
    Messages,   \* messages that are sent
    Foreign,    \* pairs of a text somebody else may send and what it means
    IOSize,     \* KATCL_IO_SIZE, size of the buffer for output
    Margin,     \* TMP_MARGIN, room in it below which it is drained
    MaxLoad     \* bound on the number of messages times connections

\* The characters that matter: those that are escaped, with their escapes.
Escape == [c \in {"esc", "nl", "cr", "nul", "backslash", "space", "tab"} |->
              CASE c = "esc" -> "e" [] c = "nl" -> "n" [] c = "cr" -> "r" [] c = "nul" -> "0"
                [] c = "backslash" -> "backslash" [] c = "space" -> "_" [] c = "tab" -> "t"]

Special == DOMAIN Escape
Types == {"?", "!", "#"}
Digits == {"0", "1"}

\* A message has a name, which starts with its type and needs no escapes.
ASSUME LineAssumption ==
    /\ Chains \subseteq Nat \ {0} /\ Margin >= 3 /\ IOSize >= Margin
    /\ \A m \in Messages \cup {f[2] : f \in Foreign} :
          /\ m # << >> /\ m[1] # << >> /\ m[1][1] \in Types
          /\ \A i \in 1 .. Len(m[1]) : m[1][i] \notin Special \cup {"["}

VARIABLES
    out,    \* the line that writes to hop i
    wire,   \* characters under way
    in,     \* the message the line at the other end of hop i reads, l_next
    sent,   \* messages that have been given to the first line
    got     \* messages that have come out of the last one

lvars == <<out, wire, in, sent, got>>

Hops == Len(out)

\* create_parse_katcl
Fresh == [buffer |-> << >>, used |-> 0, kept |-> 0, state |-> "fresh",
          args |-> << >>, begin |-> 0, escape |-> 0]

LineInit ==
    \E hops \in Chains :
        /\ out = [i \in 1 .. hops |-> [queue |-> << >>, stage |-> << >>, buffer |-> << >>,
                                       arg |-> 1, offset |-> 0, sending |-> FALSE]]
        /\ wire = [i \in 1 .. hops |-> << >>]
        /\ in = [i \in 1 .. hops |-> Fresh]
        /\ sent = << >> /\ got = << >>

-----------------------------------------------------------------------------
(* Output.                                                                 *)

\* A queued message: each argument is marked with whether it may need
\* escapes (1), is known to (2) or not to (0).
Made(m) == [args |-> m, escape |-> [i \in 1 .. Len(m) |-> 1]]

\* append_parse_katcl, relay_katcl
Enqueued(o, p) == [o EXCEPT !.queue = Append(@, p)]

\* append_..._katcl, argument by argument; the last one queues the message.
AppendArg(m) ==
    LET o == out[1]
        stage == Append(o.stage, m[Len(o.stage) + 1])
    IN  /\ ~o.sending
        /\ (Len(sent) + 1) * Hops <= MaxLoad
        /\ IsStrictPrefix(o.stage, m)
        /\ IF stage = m
           THEN /\ out' = [out EXCEPT ![1] = [Enqueued(o, Made(m)) EXCEPT !.stage = << >>]]
                /\ sent' = Append(sent, m)
           ELSE out' = [out EXCEPT ![1].stage = stage] /\ UNCHANGED sent
        /\ UNCHANGED <<wire, in, got>>

\* One of them fails: after_append_katcl throws the message away, and what
\* follows of it is ignored.
AppendFails ==
    /\ ~out[1].sending /\ out[1].stage # << >>
    /\ out' = [out EXCEPT ![1].stage = << >>]
    /\ UNCHANGED <<wire, in, sent, got>>

\* A whole message, possibly while another one is staged.
AppendParse(m) ==
    /\ ~out[1].sending
    /\ (Len(sent) + 1) * Hops <= MaxLoad
    /\ out' = [out EXCEPT ![1] = Enqueued(@, Made(m))]
    /\ sent' = Append(sent, m)
    /\ UNCHANGED <<wire, in, got>>

\* escape_copy_katcl
EscapeCopy(s) ==
    FlattenSeq([i \in 1 .. Len(s) |->
        IF s[i] \in Special THEN <<"backslash", Escape[s[i]]>> ELSE <<s[i]>>])

\* Mutant: escapes are not reckoned with.
CopiedWide(o) ==
    LET p == Head(o.queue)
        rest == SubSeq(p.args[o.arg], o.offset + 1, Len(p.args[o.arg]))
        space == IOSize - (Len(o.buffer) + 1)
        can == IF space < Len(rest) THEN space ELSE Len(rest)
    IN  [o EXCEPT !.buffer = @ \o EscapeCopy(SubSeq(rest, 1, can)), !.offset = @ + can]

\* WRITE_STATE_FILL: a piece of the current argument, as much as there is
\* room for.  One that may need escapes is given half of the room.
Copied(o) ==
    LET p == Head(o.queue)
        escaped == p.escape[o.arg] > 0
        rest == SubSeq(p.args[o.arg], o.offset + 1, Len(p.args[o.arg]))
        space == IOSize - (Len(o.buffer) + 1)
        room == IF escaped THEN space \div 2 ELSE space
        can == IF room < Len(rest) THEN room ELSE Len(rest)
        piece == IF escaped THEN EscapeCopy(SubSeq(rest, 1, can)) ELSE SubSeq(rest, 1, can)
    IN  [o EXCEPT !.buffer = @ \o piece, !.offset = @ + can,
                  !.queue[1].escape[o.arg] = IF escaped /\ Len(piece) > can THEN 2 ELSE @]

\* The end of an argument and WRITE_STATE_NEXT: an argument that has been
\* seen to need no escapes is marked, an empty one is spelt out, and what
\* comes next is the next argument or the next message.
NextArg(o) ==
    LET p == Head(o.queue)
        null == IF o.offset = 0 THEN <<"backslash", "@">> ELSE << >>
        more == o.arg < Len(p.args)
    IN  [o EXCEPT !.buffer = @ \o null \o <<IF more THEN "space" ELSE "nl">>,
                  !.offset = 0, !.arg = IF more THEN @ + 1 ELSE 1,
                  !.queue = IF more
                            THEN [@ EXCEPT ![1].escape[o.arg] = IF @ <= 1 THEN 0 ELSE @]
                            ELSE Tail(@)]

\* write_katcl up to the point where it sends.
RECURSIVE Filled(_)
Filled(o) ==
    IF o.queue = << >> \/ Len(o.buffer) + Margin > IOSize THEN o
    ELSE IF o.offset >= Len(Head(o.queue).args[o.arg]) THEN Filled(NextArg(o))
    ELSE Filled(Copied(o))

Sending(o) == [o EXCEPT !.sending = (o.buffer # << >>)]

\* write_katcl is called and fills its buffer.
Write(i) ==
    /\ ~out[i].sending
    /\ out[i].queue # << >> \/ out[i].buffer # << >>    \* flushing_katcl
    /\ out' = [out EXCEPT ![i] = Sending(Filled(@))]
    /\ UNCHANGED <<wire, in, sent, got>>

\* WRITE_STATE_SEND: the descriptor takes some of it; once it has taken all,
\* the buffer is filled again.
Send(i) ==
    /\ out[i].sending
    /\ \E n \in 1 .. Len(out[i].buffer) :
          LET o == [out[i] EXCEPT !.buffer = SubSeq(@, n + 1, Len(@))]
          IN  /\ wire' = [wire EXCEPT ![i] = @ \o SubSeq(out[i].buffer, 1, n)]
              /\ out' = [out EXCEPT ![i] = IF o.buffer = << >> THEN Sending(Filled(o)) ELSE o]
    /\ UNCHANGED <<in, sent, got>>

\* It takes nothing, and the rest is left to a later call.
SendBlocks(i) ==
    /\ out[i].sending
    /\ out' = [out EXCEPT ![i].sending = FALSE]
    /\ UNCHANGED <<wire, in, sent, got>>

\* A peer that is not this library, in between messages.
SendForeign(f) ==
    /\ out[1].buffer = << >> /\ out[1].arg = 1 /\ out[1].offset = 0 /\ out[1].queue = << >>
    /\ (Len(sent) + 1) * Hops <= MaxLoad
    /\ wire' = [wire EXCEPT ![1] = @ \o f[1]]
    /\ sent' = Append(sent, f[2])
    /\ UNCHANGED <<out, in, got>>

-----------------------------------------------------------------------------
(* Input.  The parser takes the escapes out in place: what it keeps goes   *)
(* into the buffer it reads from.                                          *)

Keep(p, c) == [p EXCEPT !.buffer[p.kept + 1] = c, !.kept = @ + 1]

Begin(p, state) == [p EXCEPT !.begin = p.kept, !.escape = 0, !.state = state]

EndArg(p, state) ==
    Keep([p EXCEPT !.args = Append(@, [begin |-> p.begin, end |-> p.kept, escape |-> p.escape]),
                   !.state = state], "nul")

Separator == {"space", "tab"}
EndOfLine == {"nl", "cr"}

\* The character a letter after a backslash stands for.
Unescape(c) == IF \E s \in Special : Escape[s] = c THEN CHOOSE s \in Special : Escape[s] = c ELSE c

FreshState(p, c) == IF c \in Types THEN Keep(Begin(p, "command"), c) ELSE p

CommandState(p, c) ==
    CASE c = "["         -> EndArg(p, "tag")
      [] c \in Separator -> EndArg(p, "whitespace")
      [] c \in EndOfLine -> EndArg(p, "done")
      [] OTHER           -> Keep(p, c)

\* A tag that is not a number is an error, and the connection is given up.
TagState(p, c) ==
    CASE c \in Digits -> p
      [] c = "]"      -> [p EXCEPT !.state = "whitespace"]

WhitespaceState(p, c) ==
    CASE c \in Separator -> p
      [] c \in EndOfLine -> [p EXCEPT !.state = "done"]
      [] c = "backslash" -> Begin(p, "escape")
      [] OTHER           -> Keep(Begin(p, "arg"), c)

ArgState(p, c) ==
    CASE c \in Separator -> EndArg(p, "whitespace")
      [] c \in EndOfLine -> EndArg(p, "done")
      [] c = "backslash" -> [p EXCEPT !.state = "escape"]
      [] OTHER           -> Keep(p, c)

\* Mutant: the empty argument keeps a character.
EscapeStateAt(p, c) == [Keep(p, Unescape(c)) EXCEPT !.escape = 1, !.state = "arg"]

EscapeState(p, c) ==
    [(IF c = "@" THEN p ELSE Keep(p, Unescape(c))) EXCEPT !.escape = 1, !.state = "arg"]

\* One turn of the loop in parse_katcl.
ParseChar(q) ==
    LET c == q.buffer[q.used + 1]
        p == [q EXCEPT !.used = @ + 1]
    IN  CASE p.state = "fresh"      -> FreshState(p, c)
          [] p.state = "command"    -> CommandState(p, c)
          [] p.state = "tag"        -> TagState(p, c)
          [] p.state = "whitespace" -> WhitespaceState(p, c)
          [] p.state = "arg"        -> ArgState(p, c)
          [] p.state = "escape"     -> EscapeState(p, c)

RECURSIVE Parse(_)
Parse(p) == IF p.used < Len(p.buffer) /\ p.state # "done" THEN Parse(ParseChar(p)) ELSE p

\* A message that is complete, the way it can be queued on another line.
Ready(p) == [args |-> [j \in 1 .. Len(p.args) |-> SubSeq(p.buffer, p.args[j].begin + 1, p.args[j].end)],
             escape |-> [j \in 1 .. Len(p.args) |-> p.args[j].escape]]

\* stash_remainder_parse_katcl: what has been read beyond the end of the
\* message.
Remainder(p) == [Fresh EXCEPT !.buffer = SubSeq(p.buffer, p.used + 1, Len(p.buffer))]

\* read_katcl gets some of what has arrived.
Read(i) ==
    /\ \E n \in 1 .. Len(wire[i]) :
          /\ in' = [in EXCEPT ![i].buffer = @ \o SubSeq(wire[i], 1, n)]
          /\ wire' = [wire EXCEPT ![i] = SubSeq(@, n + 1, Len(@))]
    /\ UNCHANGED <<out, sent, got>>

\* have_katcl, and a message that is complete is relayed or handled.
Have(i) ==
    LET p == Parse(in[i])
    IN  /\ in[i].used < Len(in[i].buffer)
        /\ i < Hops => ~out[i + 1].sending
        /\ IF p.state # "done"
           THEN in' = [in EXCEPT ![i] = p] /\ UNCHANGED <<out, got>>
           ELSE /\ in' = [in EXCEPT ![i] = Remainder(p)]
                /\ IF i < Hops
                   THEN out' = [out EXCEPT ![i + 1] = Enqueued(@, Ready(p))] /\ UNCHANGED got
                   ELSE got' = Append(got, Ready(p).args) /\ UNCHANGED out
        /\ UNCHANGED <<wire, sent>>

\* What has arrived need not be remembered.
Forget ==
    /\ sent # << >> /\ got = sent
    /\ sent' = << >> /\ got' = << >>
    /\ UNCHANGED <<out, wire, in>>

LineNext ==
    \/ \E m \in Messages : AppendArg(m) \/ AppendParse(m)
    \/ AppendFails \/ Forget
    \/ \E f \in Foreign : SendForeign(f)
    \/ \E i \in 1 .. Hops : Write(i) \/ Send(i) \/ SendBlocks(i) \/ Read(i) \/ Have(i)

LineSpec == LineInit /\ [][LineNext]_lvars

-----------------------------------------------------------------------------
(* Properties.                                                             *)

\* The output never exceeds its buffer, for which the room left to an
\* escape, the spelling of an empty argument and a separator has to be
\* enough; the position is inside the message at the head of the queue; and
\* the parser does not overwrite what it has not read.
LineTypeOK ==
    \A i \in 1 .. Hops :
        /\ Len(out[i].buffer) <= IOSize
        /\ out[i].queue # << >> =>
              /\ out[i].arg \in 1 .. Len(Head(out[i].queue).args)
              /\ out[i].offset \in 0 .. Len(Head(out[i].queue).args[out[i].arg])
        /\ in[i].kept <= in[i].used /\ in[i].used <= Len(in[i].buffer)

\* There is nothing left to write, under way or to parse.
Idle ==
    \A i \in 1 .. Hops :
        out[i].queue = << >> /\ out[i].buffer = << >> /\ wire[i] = << >> /\ in[i].used = Len(in[i].buffer)

\* However a message is cut up on its way, in the middle of an argument or
\* of an escape, what arrives is what was sent, in the same order; and nothing
\* is forgotten: when there is nothing left to do everything has arrived.
\* On the way no buffer overflows.
ArrivesIntact == LineTypeOK /\ IsPrefix(got, sent) /\ (Idle => got = sent)

=============================================================================
