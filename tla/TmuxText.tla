------------------------------ MODULE TmuxText ------------------------------
(***************************************************************************)
(* The text that tmux and this code exchange: the escapes of %output, the  *)
(* listing of panes, and layouts.  A state holds one text that tmux wrote; *)
(* the functions that read it are compared with what it says.              *)
(*                                                                         *)
(* Text is a sequence of bytes; a few bytes stand for their classes: a     *)
(* control byte, the backslash, digits, a letter, and the two bytes of one *)
(* character beyond ASCII.  External: tmux, and Rust's conversion of bytes *)
(* to text, which replaces what is not UTF-8.                              *)
(***************************************************************************)
EXTENDS Naturals, Sequences, SequencesExt

CONSTANTS
  MaxText,  (* bound: characters of an output                              *)
  MaxRows   (* bound: panes of a listing                                   *)

ASSUME TextAssumption == MaxText \in Nat /\ MaxRows \in Nat

VARIABLE
  tmux      (* what tmux said: [says, text]                                *)

Backslash == 92
Lead == 195
Continuation == 169
Replacement == <<239, 191, 189>>

-----------------------------------------------------------------------------
(* Output.                                                                 *)

(* tmux writes control bytes and backslashes as three octal digits.        *)
Escape(bytes) ==
  FlattenSeq([i \in DOMAIN bytes |->
    IF bytes[i] < 32 \/ bytes[i] = Backslash
    THEN <<Backslash, 48 + (bytes[i] \div 64), 48 + ((bytes[i] \div 8) % 8), 48 + (bytes[i] % 8)>>
    ELSE <<bytes[i]>>])

(* from_utf8_lossy: bytes to characters, each the sequence of its bytes.   *)
Lossy(bytes) ==
  LET chars[i \in 1 .. Len(bytes) + 1] ==
        IF i > Len(bytes) THEN <<>>
        ELSE IF bytes[i] < 128 THEN <<<<bytes[i]>>>> \o chars[i + 1]
        ELSE IF bytes[i] = Lead /\ i < Len(bytes) /\ bytes[i + 1] = Continuation
        THEN <<<<Lead, Continuation>>>> \o chars[i + 2]
        ELSE <<Replacement>> \o chars[i + 1]
  IN  chars[1]

IsOctal(text, i) == i <= Len(text) /\ text[i][1] \in 48 .. 55
Value(digits) == FoldLeft(LAMBDA v, c : 8 * v + c[1] - 48, 0, digits)
Byte(digits) == IF Value(digits) < 256 THEN <<Value(digits)>> ELSE <<>>

(* Mutant of CharBytes: a character is one byte.                           *)
FirstByte(c) == <<c[1]>>

(* encode_utf8.                                                            *)
CharBytes(c) == c

(* decode_tmux_output of the server.  After one octal digit it takes the   *)
(* next two characters, whatever they are.                                 *)
DecodeOnServer(text) ==
  LET out[i \in 1 .. Len(text) + 4] ==
        IF i > Len(text) THEN <<>>
        ELSE IF text[i] # <<Backslash>> THEN CharBytes(text[i]) \o out[i + 1]
        ELSE IF ~IsOctal(text, i + 1) THEN <<Backslash>> \o out[i + 1]
        ELSE IF IsOctal(text, i + 2) /\ IsOctal(text, i + 3)
                /\ Value(SubSeq(text, i + 1, i + 3)) < 256
        THEN Byte(SubSeq(text, i + 1, i + 3)) \o out[i + 4]
        ELSE <<Backslash>> \o out[i + 4]
  IN  out[1]

(* Mutant of OctalDigits: one too many.                                    *)
FourDigits == 4

OctalDigits == 3

(* decode_tmux_output of the agent.  It takes as many digits as there are, *)
(* and a backslash that ends the text is lost.                             *)
DecodeOnAgent(text) ==
  LET digits(i) == CHOOSE n \in 0 .. OctalDigits :
                     /\ \A k \in 1 .. n : IsOctal(text, i + k)
                     /\ n = OctalDigits \/ ~IsOctal(text, i + n + 1)
      out[i \in 1 .. Len(text) + OctalDigits + 1] ==
        IF i > Len(text) THEN <<>>
        ELSE IF text[i] # <<Backslash>> THEN CharBytes(text[i]) \o out[i + 1]
        ELSE IF digits(i) > 0
        THEN Byte(SubSeq(text, i + 1, i + digits(i))) \o out[i + digits(i) + 1]
        ELSE IF i = Len(text) THEN <<>>
        ELSE IF text[i + 1] = <<Backslash>> THEN <<Backslash>> \o out[i + 2]
        ELSE <<Backslash>> \o out[i + 1]
  IN  out[1]

(* What programs print in a pane.                                          *)
Printed == BoundedSeq({<<27>>, <<Backslash>>, <<48>>, <<56>>, <<97>>, <<Lead, Continuation>>},
                      MaxText)

-----------------------------------------------------------------------------
(* The listing of panes.  A line names a session, a window and a pane;     *)
(* their other fields are copied.                                          *)

FindOrPush(list, new) ==
  IF \E i \in DOMAIN list : list[i].id = new.id THEN list ELSE Append(list, new)
Position(list, id) == CHOOSE i \in DOMAIN list : list[i].id = id

(* Mutant of AddPane: the pane takes the place of those before it.         *)
SetPane(sessions, row) ==
  LET known == FindOrPush(sessions, [id |-> row.session, windows |-> <<>>])
      s == Position(known, row.session)
      windows == FindOrPush(known[s].windows, [id |-> row.window, panes |-> <<>>])
  IN  [known EXCEPT ![s].windows =
         [windows EXCEPT ![Position(windows, row.window)].panes = <<row.pane>>]]

(* One turn of the loop: find or create the session, in it the window.     *)
AddPane(sessions, row) ==
  LET known == FindOrPush(sessions, [id |-> row.session, windows |-> <<>>])
      s == Position(known, row.session)
      windows == FindOrPush(known[s].windows, [id |-> row.window, panes |-> <<>>])
  IN  [known EXCEPT ![s].windows =
         [windows EXCEPT ![Position(windows, row.window)].panes = Append(@, row.pane)]]

(* A line with too few fields, which is skipped.                           *)
Short == [session |-> 0, window |-> 0, pane |-> 0]
Fields(lines) == SelectSeq(lines, LAMBDA l : l # Short)

ParsePaneListing(lines) == FoldLeft(AddPane, <<>>, Fields(lines))

(* The agent's tree of the windows of one session, ordered by their ids.   *)
BuildWindowTree(lines) ==
  LET rows == Fields(lines)
      ids == SetToSortSeq({rows[i].window : i \in DOMAIN rows}, LAMBDA v, w : v < w)
      inWindow(w) == SelectSeq(rows, LAMBDA r : r.window = w)
  IN  [k \in DOMAIN ids |->
         [id |-> ids[k], panes |-> [i \in DOMAIN inWindow(ids[k]) |-> inWindow(ids[k])[i].pane]]]

Row == [session : 1 .. 2, window : 1 .. 2, pane : 1 .. 3]

(* tmux lists sessions one after the other, and windows; a window may be   *)
(* linked into both sessions.                                              *)
IsListing(rows) ==
  /\ \A i, j \in DOMAIN rows : i # j => rows[i] # rows[j]
  /\ \A i, j \in DOMAIN rows : rows[i].pane = rows[j].pane => rows[i].window = rows[j].window
  /\ \A i, j, k \in DOMAIN rows :
       i < j /\ j < k /\ rows[i].session = rows[k].session
         => /\ rows[j].session = rows[i].session
            /\ rows[i].window = rows[k].window => rows[j].window = rows[i].window

Listings == {lines \in BoundedSeq(Row \cup {Short}, MaxRows) : IsListing(Fields(lines))}

Unfold(sessions) ==
  FlattenSeq([s \in DOMAIN sessions |->
    FlattenSeq([w \in DOMAIN sessions[s].windows |->
      [p \in DOMAIN sessions[s].windows[w].panes |->
         [session |-> sessions[s].id, window |-> sessions[s].windows[w].id,
          pane |-> sessions[s].windows[w].panes[p]]]])])

-----------------------------------------------------------------------------
(* Layouts, as sequences of tokens.                                        *)

Number(n) == [t |-> "n", v |-> n]
Mark(t) == [t |-> t, v |-> 0]
Comma == Mark(",")
Failed == [ok |-> FALSE, got |-> <<>>, rest |-> <<>>]
StartsWith(s, t) == s # <<>> /\ Head(s).t = t

HeaderCommas == 3

(* split_header: up to the first bracket, or the comma before the pane id. *)
HeaderEnd(s) ==
  LET commas(i) == Len(SelectSeq(SubSeq(s, 1, i), LAMBDA c : c = Comma))
      stops == {i \in DOMAIN s : s[i].t \in {"[", "{"} \/ commas(i) = HeaderCommas}
  IN  IF stops = {} THEN Len(s) ELSE (CHOOSE i \in stops : \A j \in stops : i <= j) - 1

(* parse_dimensions: COLSxROWS,X,Y.                                        *)
IsHeader(h) ==
  [i \in DOMAIN h |-> h[i].t] \in {<<"n", "x", "n", ",", "n", ",", "n">>}


Dimensions(h) == [cols |-> h[1].v, rows |-> h[3].v, x |-> h[5].v, y |-> h[7].v]

RECURSIVE ParseNode(_), ParseChildren(_, _, _)

(* parse_node and parse_pane_id.                                           *)
ParseNode(s) ==
  LET header == SubSeq(s, 1, HeaderEnd(s))
      rest == SubSeq(s, HeaderEnd(s) + 1, Len(s))
      at == Dimensions(header)
      node(kind, close) ==
        LET c == ParseChildren(Tail(rest), close, <<>>) IN
          IF c.ok THEN [c EXCEPT !.got = [at |-> at, kind |-> kind, id |-> 0, children |-> c.got]]
          ELSE Failed
      leaf == IF StartsWith(rest, ",") THEN Tail(rest) ELSE rest
      pane(id, after) ==
        [ok |-> TRUE, got |-> [at |-> at, kind |-> "pane", id |-> id, children |-> <<>>],
         rest |-> after]
  IN  IF ~IsHeader(header) THEN Failed
      ELSE IF StartsWith(rest, "[") THEN node("v", "]")
      ELSE IF StartsWith(rest, "{") THEN node("h", "}")
      ELSE IF StartsWith(leaf, "n") THEN pane(Head(leaf).v, Tail(leaf)) ELSE pane(0, leaf)

ParseChildren(s, close, children) ==
  IF StartsWith(s, close) THEN [ok |-> TRUE, got |-> children, rest |-> Tail(s)]
  ELSE LET child == ParseNode(IF StartsWith(s, ",") THEN Tail(s) ELSE s) IN
         IF child.ok THEN ParseChildren(child.rest, close, Append(children, child.got))
         ELSE Failed

(* parse_layout: a checksum is skipped.                                    *)
ParseLayout(s) ==
  ParseNode(IF StartsWith(s, "sum") THEN SubSeq(s, 3, Len(s)) ELSE s)

RECURSIVE Written(_)

(* What tmux writes: the width of a node, then its height.                 *)
Written(l) ==
  LET at == <<Number(l.at.cols), Mark("x"), Number(l.at.rows), Comma, Number(l.at.x), Comma,
              Number(l.at.y)>>
      list == FlattenSeq([i \in DOMAIN l.children |->
                IF i = 1 THEN Written(l.children[i]) ELSE <<Comma>> \o Written(l.children[i])])
  IN  CASE l.kind = "pane" -> at \o <<Comma, Number(l.id)>>
        [] l.kind = "v" -> at \o <<Mark("[")>> \o list \o <<Mark("]")>>
        [] l.kind = "h" -> at \o <<Mark("{")>> \o list \o <<Mark("}")>>

At(cols, rows, x, y) == [cols |-> cols, rows |-> rows, x |-> x, y |-> y]
Panes == [at : {At(40, 12, 0, 13), At(39, 11, 41, 5)}, kind : {"pane"}, id : 0 .. 1,
          children : {<<>>}]
Splits(S) == [at : {At(80, 24, 2, 1)}, kind : {"v", "h"}, id : {0}, children : S \X S]
Layouts == Panes \cup Splits(Panes) \cup Splits(Panes \cup Splits(Panes))

-----------------------------------------------------------------------------
Init == tmux = [says |-> "nothing", text |-> <<>>]

Says(kind, texts) ==
  /\ tmux.says = "nothing"
  /\ \E text \in texts : tmux' = [says |-> kind, text |-> text]

Next ==
  \/ Says("output", Printed)
  \/ Says("panes", Listings)
  \/ Says("layout", Layouts)

Spec == Init /\ [][Next]_tmux

-----------------------------------------------------------------------------
(* Both decoders give back what the program printed, when the text arrives *)
(* in one piece (control.rs:184-214, agent server.rs:354-390).             *)
DecodersInvertTmux ==
  tmux.says = "output" =>
    LET bytes == FlattenSeq(tmux.text)
        text == Lossy(Escape(bytes))
    IN  DecodeOnServer(text) = bytes /\ DecodeOnAgent(text) = bytes

(* The channel of the SSH transport cuts the text anywhere, and every      *)
(* chunk is converted on its own (ssh_transport.rs:408): the character     *)
(* that is cut is replaced, half by half, and nothing else is lost, an     *)
(* escape that is cut least of all.                                        *)
CutsHurtOneCharacter ==
  tmux.says = "output" =>
    LET chars == tmux.text
        ends == [i \in 0 .. Len(chars) |-> Len(Escape(FlattenSeq(SubSeq(chars, 1, i))))]
        raw == Escape(FlattenSeq(chars))
        isCut(i, cut) == Len(chars[i]) > 1 /\ ends[i - 1] < cut /\ cut < ends[i]
    IN  \A cut \in 0 .. Len(raw) :
          DecodeOnServer(Lossy(SubSeq(raw, 1, cut)) \o Lossy(SubSeq(raw, cut + 1, Len(raw))))
            = FlattenSeq([i \in DOMAIN chars |->
                            IF isCut(i, cut) THEN Replacement \o Replacement ELSE chars[i]])

(* The tree holds every line of the listing once, where the line says and  *)
(* in its order; the server and the agent show the same windows with the   *)
(* same panes (ssh_transport.rs:123-188, agent server.rs:873-888).         *)
TreesHoldTheListing ==
  tmux.says = "panes" =>
    LET sessions == ParsePaneListing(tmux.text)
        rows == Fields(tmux.text)
    IN  /\ Unfold(sessions) = rows
        /\ (\A i \in DOMAIN rows : rows[i].session = 1)
             => ToSet(BuildWindowTree(tmux.text)) = UNION {ToSet(s.windows) : s \in ToSet(sessions)}


=============================================================================
