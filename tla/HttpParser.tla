----------------------------- MODULE HttpParser -----------------------------
(***************************************************************************)
(* The HTTP/1.1 request parser of src/http/http_server.c: the read stream  *)
(* (struct stream), the character FSM (_transitions), the meta FSM         *)
(* (_meta_transitions) and _token_parse, which pulls bytes one at a time   *)
(* until a token is emitted or the buffered bytes run out.                 *)
(*                                                                         *)
(* Everything here is a pure operator over two records: a parser record   *)
(* (struct parser) and a stream record (struct stream).  Byte positions   *)
(* keep the C convention: C index i is buf[i + 1].  Characters are        *)
(* one-character strings; Chars turns a string into a byte sequence.      *)
(***************************************************************************)
EXTENDS Integers, SequencesExt

CONSTANTS
  BufMax,        \* spec.request_buf_max_size
  TokenMaxLen,   \* spec.request_token_max_len
  MaxHeaderCount \* spec.request_max_header_count

Chars(s) == [i \in 1 .. Len(s) |-> SubSeq(s, i, i)]

NUL == "<nul>"  \* a byte of a freshly calloc'ed or realloc'ed buffer

-----------------------------------------------------------------------------
(* CharClassifier: _ctype.  Ord is the byte value the code does arithmetic *)
(* on (c - '0', c - 55, c + 32).                                           *)

\* Bytes 32 .. 95 and 97 .. 126 (the backquote, 96, is never sent).
PRINTABLE_LO == Chars(" !\"#$%&'()*+,-./0123456789:;<=>?@ABCDEFGHIJKLMNOPQRSTUVWXYZ[\\]^_")
PRINTABLE_HI == Chars("abcdefghijklmnopqrstuvwxyz{|}~")
Ord(c) ==
  CASE c = "\t" -> 9 [] c = "\n" -> 10 [] c = "\r" -> 13 [] c = NUL -> 0
    [] c \in Range(PRINTABLE_LO) -> 31 + CHOOSE i \in DOMAIN PRINTABLE_LO : PRINTABLE_LO[i] = c
    [] c \in Range(PRINTABLE_HI) -> 96 + CHOOSE i \in DOMAIN PRINTABLE_HI : PRINTABLE_HI[i] = c

HS_SPC == 0
HS_NL == 1
HS_CR == 2
HS_COLN == 3
HS_TAB == 4
HS_SCOLN == 5
HS_DIGIT == 6
HS_HEX == 7
HS_ALPHA == 8
HS_TCHAR == 9
HS_VCHAR == 10
HS_ETC == 11

CharClass(c) ==
  CASE c = " "  -> HS_SPC   [] c = "\n" -> HS_NL  [] c = "\r" -> HS_CR
    [] c = ":"  -> HS_COLN  [] c = "\t" -> HS_TAB [] c = ";"  -> HS_SCOLN
    [] c \in Range(Chars("0123456789"))   -> HS_DIGIT
    [] c \in Range(Chars("ABCDEFabcdef")) -> HS_HEX
    [] c \in Range(Chars("GHIJKLMNOPQRSTUVWXYZghijklmnopqrstuvwxyz")) -> HS_ALPHA
    [] c \in Range(Chars("!#$%&'*+,-.^_|~"))    -> HS_TCHAR
    [] c \in Range(Chars("\"()/<=>?@[\\]{}"))    -> HS_VCHAR
    [] OTHER -> HS_ETC

UPPER == Chars("ABCDEFGHIJKLMNOPQRSTUVWXYZ")
LOWER == Chars("abcdefghijklmnopqrstuvwxyz")
\* low = c >= 'A' && c <= 'Z' ? c + 32 : c
Fold(c) == IF c \in Range(UPPER) THEN LOWER[CHOOSE i \in 1 .. 26 : UPPER[i] = c] ELSE c

-----------------------------------------------------------------------------
(* Character FSM: enum state_e and the _transitions table.                 *)

ST == 0
MT == 1
MS == 2
TR == 3
TS == 4
VN == 5
RR == 6
RN == 7
HK == 8
HS == 9
HV == 10
HR == 11
HE == 12
ER == 13
HN == 14
BD == 15
CS == 16
CB == 17
CE == 18
CR == 19
CN == 20
CD == 21
C1 == 22
C2 == 23
BR == 24

\* Row s + 1, column class + 1.  There is no row for BR.
Transitions == <<
  \*  spc \n  \r  :   \t  ;   0-9 a-f g-z tch vch etc
  << BR, BR, BR, BR, BR, BR, BR, MT, MT, MT, BR, BR >>,  \* ST
  << MS, BR, BR, BR, BR, BR, MT, MT, MT, MT, BR, BR >>,  \* MT
  << BR, BR, BR, BR, BR, BR, TR, TR, TR, TR, TR, BR >>,  \* MS
  << TS, BR, BR, TR, BR, TR, TR, TR, TR, TR, TR, BR >>,  \* TR
  << BR, BR, BR, BR, BR, BR, VN, VN, VN, VN, VN, BR >>,  \* TS
  << BR, BR, RR, BR, BR, BR, VN, VN, VN, VN, VN, BR >>,  \* VN
  << BR, RN, BR, BR, BR, BR, BR, BR, BR, BR, BR, BR >>,  \* RR
  << BR, BR, BR, BR, BR, BR, HK, HK, HK, HK, BR, BR >>,  \* RN
  << BR, BR, BR, HS, BR, BR, HK, HK, HK, HK, BR, BR >>,  \* HK
  << HS, HS, HS, HV, HS, HV, HV, HV, HV, HV, HV, BR >>,  \* HS
  << HV, BR, HR, HV, HV, HV, HV, HV, HV, HV, HV, BR >>,  \* HV
  << BR, HE, BR, BR, BR, BR, BR, BR, BR, BR, BR, BR >>,  \* HR
  << BR, BR, ER, BR, BR, BR, HK, HK, HK, HK, BR, BR >>,  \* HE
  << BR, HN, BR, BR, BR, BR, BR, BR, BR, BR, BR, BR >>,  \* ER
  << BD, BD, BD, BD, BD, BD, BD, BD, BD, BD, BD, BD >>,  \* HN
  << BD, BD, BD, BD, BD, BD, BD, BD, BD, BD, BD, BD >>,  \* BD
  << BR, BR, CR, BR, BR, CE, CS, CS, BR, BR, BR, BR >>,  \* CS
  << CB, CB, CB, CB, CB, CB, CB, CB, CB, CB, CB, CB >>,  \* CB
  << BR, BR, CR, CE, CE, CE, CE, CE, CE, CE, CE, BR >>,  \* CE
  << BR, CN, BR, BR, BR, BR, BR, BR, BR, BR, BR, BR >>,  \* CR
  << CB, CB, CB, CB, CB, CB, CB, CB, CB, CB, CB, CB >>,  \* CN
  << BR, BR, C1, BR, BR, BR, BR, BR, BR, BR, BR, BR >>,  \* CD
  << BR, C2, BR, BR, BR, BR, BR, BR, BR, BR, BR, BR >>,  \* C1
  << BR, BR, BR, BR, BR, BR, CS, CS, BR, BR, BR, BR >> >> \* C2

\* _token_start_states.  The array has no entry for BR; the out-of-bounds
\* read on every transition into BR is taken to yield no token type.
TokenStart(s) ==
  CASE s = MT -> "METHOD" [] s = TR -> "TARGET" [] s = VN -> "VERSION"
    [] s = HK -> "HEADER_KEY" [] s = HV -> "HEADER_VAL" [] s = BD -> "BODY"
    [] s = CB -> "CHUNK_BODY" [] OTHER -> "NONE"

-----------------------------------------------------------------------------
(* Meta FSM: enum meta_state_e, enum meta_type_e, _meta_transitions.       *)

M_WFK == 0
M_ANY == 1
M_MTE == 2
M_MCL == 3
M_CLV == 4
M_MCK == 5
M_SML == 6
M_CHK == 7
M_BIG == 8
M_ZER == 9
M_CSZ == 10
M_CBD == 11
M_LST == 12
M_STR == 13
M_SEN == 14
M_BDY == 15
M_END == 16
M_ERR == 17

NOT_CONTENT_LEN == 0
NOT_TRANSFER_ENC == 1
END_KEY == 2
END_VALUE == 3
END_HEADERS == 4
LARGE_BODY == 5
NOT_CHUNKED == 0
NON_ZERO == 0
END_CHK_SIZE == 1
END_CHUNK == 2
NEXT == 0

\* There is no row for M_ERR: a trigger in M_ERR reads past the table.
MetaTransitions == <<
  << M_WFK, M_WFK, M_WFK, M_ANY, M_END, M_ERR >>,  \* WFK
  << M_MTE, M_MCL, M_WFK, M_ERR, M_END, M_ERR >>,  \* ANY
  << M_MTE, M_WFK, M_MCK, M_ERR, M_ERR, M_ERR >>,  \* MTE
  << M_WFK, M_MCL, M_CLV, M_ERR, M_ERR, M_ERR >>,  \* MCL
  << M_ERR, M_ERR, M_ERR, M_SML, M_ERR, M_ERR >>,  \* CLV
  << M_WFK, M_ERR, M_ERR, M_CHK, M_ERR, M_ERR >>,  \* MCK
  << M_SML, M_SML, M_SML, M_SML, M_BDY, M_BIG >>,  \* SML
  << M_CHK, M_CHK, M_CHK, M_CHK, M_ZER, M_ERR >>,  \* CHK
  << M_BIG, M_BIG, M_BIG, M_BIG, M_STR, M_ERR >>,  \* BIG
  << M_CSZ, M_LST, M_ERR, M_ERR, M_ERR, M_ERR >>,  \* ZER
  << M_CSZ, M_CBD, M_ERR, M_ERR, M_ERR, M_ERR >>,  \* CSZ
  << M_CBD, M_CBD, M_ZER, M_ERR, M_ERR, M_ERR >>,  \* CBD
  << M_LST, M_END, M_END, M_ERR, M_ERR, M_ERR >>,  \* LST
  << M_SEN, M_ERR, M_ERR, M_ERR, M_ERR, M_ERR >>,  \* STR
  << M_END, M_ERR, M_ERR, M_ERR, M_ERR, M_ERR >>,  \* SEN
  << M_END, M_ERR, M_ERR, M_ERR, M_ERR, M_ERR >>,  \* BDY
  << M_WFK, M_ERR, M_ERR, M_ERR, M_ERR, M_ERR >> >> \* END

MetaTrigger(p, event) == [p EXCEPT !.meta = MetaTransitions[p.meta + 1][event + 1]]

-----------------------------------------------------------------------------
(* Tokens, parser and stream records.                                      *)

TokenTypes == {"NONE", "METHOD", "TARGET", "VERSION", "HEADER_KEY", "HEADER_VAL",
               "CHUNK_BODY", "BODY", "BODY_STREAM", "REQ_END", "EOF", "ERROR"}
NoToken == [type |-> "NONE", index |-> 0, len |-> 0]
Token(type) == [NoToken EXCEPT !.type = type]

\* memset(parser, 0, sizeof(*parser))
ParserZero == [content_length |-> 0, body_consumed |-> 0, match_index |-> 0,
               header_count |-> 0, state |-> ST, meta |-> M_WFK]

\* _stream_free_buffer: the buffer is freed and the struct zeroed; a null
\* buffer is a stream of capacity 0.
StreamZero == [buf |-> <<>>, tok |-> NoToken, bytes_total |-> 0, capacity |-> 0,
               length |-> 0, index |-> 0, anchor |-> 0]

\* The bytes a token designates, as the handler reads them.  A byte past
\* what the buffer holds is stale memory, GARBAGE.
GARBAGE == "<stale>"
TokenBytes(st, t) ==
  [i \in 1 .. IF t.len > 0 THEN t.len ELSE 0 |->
     IF t.index + i \in DOMAIN st.buf THEN st.buf[t.index + i] ELSE GARBAGE]

\* _stream_consume; `consumed` is the HS_SF_CONSUMED flag.
StreamConsume(st, consumed) ==
  IF consumed THEN st
  ELSE [st EXCEPT !.index = @ + 1,
                  !.tok.len = IF st.tok.type # "NONE" THEN @ + 1 ELSE 0]

\* A faulty _stream_shift that leaves the index one past the moved token.
StreamShiftPastToken(st) ==
  IF st.tok.index = st.anchor THEN st
  ELSE [st EXCEPT !.tok.index = st.anchor, !.index = st.anchor + st.tok.len + 1,
                  !.length = st.anchor + st.tok.len]

\* _stream_shift: move the current token down to the anchor and drop what
\* follows it.  memcpy with dst below src is taken to copy forwards.
StreamShift(st) ==
  IF st.tok.index = st.anchor THEN st
  ELSE LET from == st.tok.index - st.anchor
           buf  == IF st.tok.len > 0
                   THEN [i \in DOMAIN st.buf |->
                           IF i > st.anchor /\ i <= st.length - from
                           THEN st.buf[i + from] ELSE st.buf[i]]
                   ELSE st.buf
       IN [st EXCEPT !.buf = buf, !.tok.index = st.anchor,
                     !.index = st.anchor + st.tok.len,
                     !.length = st.anchor + st.tok.len]

StreamBeginToken(st, type) == [st EXCEPT !.tok.type = type, !.tok.index = st.index]

\* _stream_emit: the token is returned and the current token zeroed.
StreamEmit(st) == [st EXCEPT !.tok = NoToken]

\* _stream_can_contain
StreamCanContain(st, size) == BufMax - st.index + 1 >= size

\* _stream_jump: true when `offset` more bytes are buffered; the index is
\* left where it is.
JumpFits(st, offset) == st.index + offset <= st.length
StreamJump(st, offset) ==
  IF JumpFits(st, offset)
  THEN [st EXCEPT !.tok.len = IF st.tok.type # "NONE" THEN @ + offset ELSE 0]
  ELSE st

\* A faulty _stream_jumpall that moves the index but not the token end.
StreamJumpAllKeepsLen(st) == [st EXCEPT !.index = st.length]

\* _stream_jumpall
StreamJumpAll(st) ==
  [st EXCEPT !.index = st.length,
             !.tok.len = IF st.tok.type # "NONE" THEN @ + (st.length - st.index) ELSE 0]

-----------------------------------------------------------------------------
(* _meta_emit_token                                                        *)

MetaEmitToken(p) ==
  CASE p.meta = M_SEN -> [p |-> MetaTrigger(p, NEXT), tok |-> Token("CHUNK_BODY")]
    [] p.meta = M_END -> [p |-> ParserZero, tok |-> Token("REQ_END")]
    [] OTHER          -> [p |-> p, tok |-> NoToken]

\* The MATCH macro: compare the folded byte with str[match_index] and fire
\* `event` on a mismatch.  m keeps its previous value when match_index is
\* past the end of str.
MatchChar(str, mi, mprev) == IF mi < Len(str) THEN str[mi + 1] ELSE mprev
Match(p, str, c, mprev, event) ==
  LET m == MatchChar(str, p.match_index, mprev)
  IN [p |-> IF Fold(c) # m THEN MetaTrigger(p, event) ELSE p, m |-> m]

HexVal(c) ==
  CASE c \in Range(Chars("ABCDEF")) -> Ord(c) - 55
    [] c \in Range(Chars("abcdef")) -> Ord(c) - 87
    [] OTHER                        -> Ord(c) - Ord("0")
IsHexDigit(c) == c \in Range(Chars("0123456789ABCDEFabcdef"))

(***************************************************************************)
(* _transition(client, c, from, to): p already has state = to.  Returns    *)
(* the new parser and stream, the emitted token, and whether the byte was  *)
(* committed by a jump (so that _stream_consume must not advance).  The    *)
(* part before the switch is Enter; the switch on `to` is Switch.          *)
(***************************************************************************)

\* Before the switch: the anchor after HN and, on a change of state, the
\* start of a token, the end of a chunk size, the header count or the end
\* of a key, and match_index = 0.  Returns [p, st, e].
Enter(p, st, from, to) ==
  LET sa == IF from = HN THEN [st EXCEPT !.anchor = st.index] ELSE st
      sb == IF TokenStart(to) # "NONE" THEN StreamBeginToken(sa, TokenStart(to)) ELSE sa
      pc == [(IF from = CS THEN MetaTrigger(p, END_CHK_SIZE) ELSE p) EXCEPT !.match_index = 0]
  IN CASE from = to -> [p |-> p, st |-> sa, e |-> NoToken]
       [] to = HK   -> [p |-> [pc EXCEPT !.header_count = @ + 1], st |-> sb,
                        e |-> IF pc.header_count + 1 > MaxHeaderCount
                              THEN Token("ERROR") ELSE NoToken]
       [] to = HS   -> [p |-> MetaTrigger(pc, END_KEY), st |-> StreamEmit(sb), e |-> sb.tok]
       [] OTHER     -> [p |-> pc, st |-> sb, e |-> NoToken]

\* case HK: match the key against "transfer-encoding", then "content-length".
MatchKey(p, c) ==
  LET te == Match(p, Chars("transfer-encoding"), c, NUL, NOT_TRANSFER_ENC)
      cl == Match(te.p, Chars("content-length"), c, te.m, NOT_CONTENT_LEN)
  IN [cl.p EXCEPT !.match_index = @ + 1]

\* case HV: match "chunked", or add a decimal digit of content-length.
HeaderValue(p, c) ==
  CASE p.meta = M_MCK ->
         [Match(p, Chars("chunked"), c, NUL, NOT_CHUNKED).p EXCEPT !.match_index = @ + 1]
    [] p.meta = M_CLV -> [p EXCEPT !.content_length = @ * 10 + (Ord(c) - Ord("0"))]
    [] OTHER          -> p

\* case HN: the headers end; classify the body.
HeadersEnd(p, st, e) ==
  LET pl == IF p.meta = M_SML /\ ~StreamCanContain(st, p.content_length)
            THEN MetaTrigger(p, LARGE_BODY) ELSE p
      ph == MetaTrigger(pl, END_HEADERS)
      pe == IF ph.content_length = 0 /\ ph.meta = M_BDY THEN [ph EXCEPT !.meta = M_END] ELSE ph
  IN [p |-> pe, st |-> st, consumed |-> FALSE,
      emitted |-> IF pe.meta = M_END THEN Token("BODY")
                  ELSE IF pl.meta \in {M_BIG, M_CHK} THEN Token("BODY_STREAM") ELSE e]

\* case CS: a hex digit of the chunk size.
ChunkSizeDigit(p, c) ==
  LET pz == IF c # "0" THEN MetaTrigger(p, NON_ZERO) ELSE p
  IN IF IsHexDigit(c) THEN [pz EXCEPT !.content_length = @ * 16 + HexVal(c)] ELSE pz

\* case CB, BD: jump over the rest of the body when it is buffered, else
\* take what is buffered (a streamed chunk is emitted and shifted out).
Body(p, st, e, to) ==
  LET body_left == p.content_length - p.body_consumed
      sj        == StreamJump(st, body_left)
      sa        == StreamJumpAll(st)
  IN IF JumpFits(st, body_left)
     THEN [p |-> [MetaTrigger(p, NEXT) EXCEPT !.state = IF to = CB THEN CD ELSE @,
                                              !.content_length = 0, !.body_consumed = 0],
           st |-> StreamEmit(sj), emitted |-> sj.tok, consumed |-> TRUE]
     ELSE [p |-> [p EXCEPT !.body_consumed = @ + (st.length - st.index)],
           st |-> IF p.meta = M_STR THEN StreamShift(StreamEmit(sa)) ELSE sa,
           emitted |-> IF p.meta = M_STR THEN sa.tok ELSE e, consumed |-> TRUE]

\* The switch of _transition, given r = Enter(...).
Switch(r, c, to) ==
  CASE to \in {MS, TS} ->
         [p |-> r.p, st |-> StreamEmit(r.st), emitted |-> r.st.tok, consumed |-> FALSE]
    [] to \in {RR, HR} ->
         [p |-> MetaTrigger(r.p, END_VALUE), st |-> StreamEmit(r.st), emitted |-> r.st.tok,
          consumed |-> FALSE]
    [] to = HK -> [p |-> MatchKey(r.p, c), st |-> r.st, emitted |-> r.e, consumed |-> FALSE]
    [] to = HV -> [p |-> HeaderValue(r.p, c), st |-> r.st, emitted |-> r.e, consumed |-> FALSE]
    [] to = HN -> HeadersEnd(r.p, r.st, r.e)
    [] to = CS -> [p |-> ChunkSizeDigit(r.p, c), st |-> r.st, emitted |-> r.e, consumed |-> FALSE]
    [] to \in {CB, BD} ->
         Body(r.p, IF r.p.meta = M_STR THEN StreamBeginToken(r.st, "CHUNK_BODY") ELSE r.st,
              r.e, to)
    [] to = C2 -> [p |-> MetaTrigger(r.p, END_CHUNK), st |-> r.st, emitted |-> r.e,
                   consumed |-> FALSE]
    [] to = BR -> [p |-> r.p, st |-> r.st, emitted |-> Token("ERROR"), consumed |-> FALSE]
    [] OTHER   -> [p |-> r.p, st |-> r.st, emitted |-> r.e, consumed |-> FALSE]

Transition(p, st, c, from, to) == Switch(Enter(p, st, from, to), c, to)

-----------------------------------------------------------------------------
(* _token_parse: returns [p, st, tok].                                     *)

\* The character FSM step, with the override of HN -> BD to CS after a
\* zero-length chunked body.
NextState(p, c) ==
  LET to == Transitions[p.state + 1][CharClass(c) + 1]
  IN IF p.meta = M_ZER /\ p.state = HN /\ to = BD THEN CS ELSE to

\* After the loop: shift a partial chunk, emit a meta token, and fail a
\* token that grew past request_token_max_len.
ParseEnd(p, st) ==
  LET m == MetaEmitToken(p)
  IN [p |-> m.p, st |-> st,
      tok |-> IF st.tok.type \notin {"CHUNK_BODY", "BODY"} /\ st.tok.len > TokenMaxLen
              THEN Token("ERROR") ELSE m.tok]

RECURSIVE ParseLoop(_, _)

\* The rest of one pass of the while loop, given r = _transition(...).
ParseNext(r) ==
  IF r.emitted.type # "NONE"
  THEN [p |-> r.p, st |-> StreamConsume(r.st, r.consumed), tok |-> r.emitted]
  ELSE ParseLoop(r.p, StreamConsume(r.st, r.consumed))

\* One byte c taking the parser from p.state to `to`.
ParseByte(p, st, c, to) == ParseNext(Transition([p EXCEPT !.state = to], st, c, p.state, to))

\* The while (_stream_next(...)) loop of _token_parse.
ParseLoop(p, st) ==
  IF st.index < st.length
  THEN ParseByte(p, st, st.buf[st.index + 1], NextState(p, st.buf[st.index + 1]))
  ELSE ParseEnd(p, IF p.state = CB THEN StreamShift(st) ELSE st)

TokenParse(p, st) ==
  LET m == MetaEmitToken(p)
  IN IF m.tok.type # "NONE" THEN [p |-> m.p, st |-> st, tok |-> m.tok]
     ELSE ParseLoop(p, st)

=============================================================================
