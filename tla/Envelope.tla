-------------------------------- MODULE Envelope --------------------------------
(***************************************************************************)
(* Inscriptions in a tapscript: the script that reveals a batch of them    *)
(* and the parser that finds their envelopes in any script.                *)
(*                                                                         *)
(* An instruction is an operation and the bytes it pushes, abstracted to a *)
(* number: 0 is the empty push (OP_FALSE), n the byte n, Ord the protocol  *)
(* identifier.  A field's tag and value are such numbers, an optional one  *)
(* is a sequence of at most one, a long value a sequence of chunks.        *)
(***************************************************************************)
EXTENDS Integers, Sequences, SequencesExt, FiniteSetsExt

Ord == 111

Push(n) == [op |-> "push", data |-> n]
Num(n) == [op |-> "pushnum", data |-> n]
If == [op |-> "if", data |-> 0]
Endif == [op |-> "endif", data |-> 0]
Other == [op |-> "other", data |-> 0]
Bad == [op |-> "error", data |-> 0]

ContentTypeTag == 1
PointerTag == 2
ParentTag == 3
MetadataTag == 5
MetaprotocolTag == 7
ContentEncodingTag == 9
RuneTag == 13
BodyTag == 0

NoFields ==
  [content_type |-> <<>>, content_encoding |-> <<>>, metaprotocol |-> <<>>, parents |-> <<>>,
   pointer |-> <<>>, metadata |-> <<>>, body |-> <<>>]

\* Tag::append and append_array: the tag before each value or chunk.
Field(tag, values) == FlattenSeq([i \in DOMAIN values |-> <<Push(tag), Push(values[i])>>])

\* append_reveal_script_to_builder; a body is <<>> or <<chunks>>.
append_reveal_script(inscription) ==
  <<Push(0), If, Push(Ord)>>
  \o Field(ContentTypeTag, inscription.content_type)
  \o Field(ContentEncodingTag, inscription.content_encoding)
  \o Field(MetaprotocolTag, inscription.metaprotocol)
  \o Field(ParentTag, inscription.parents)
  \o Field(PointerTag, inscription.pointer)
  \o Field(MetadataTag, inscription.metadata)
  \o (IF inscription.body = <<>> THEN <<>>
      ELSE <<Push(BodyTag)>> \o [i \in DOMAIN inscription.body[1] |-> Push(inscription.body[1][i])])
  \o <<Endif>>

append_batch_reveal_script(batch) ==
  FlattenSeq([i \in DOMAIN batch |-> append_reveal_script(batch[i])])

\* Whether the next instruction is this one.
Peek(script, i, token) == i <= Len(script) /\ script[i] = token

\* The first instruction from i on that pushes nothing.
PushesEnd(script, i) ==
  Min({j \in i..Len(script) : script[j].op \notin {"push", "pushnum"}} \cup {Len(script) + 1})

Attempt(next, stutter, found, ok) == [next |-> next, stutter |-> stutter, found |-> found, ok |-> ok]

\* Mutant: the end of the script closes an envelope.
Closes_AtEnd(script, j) == j > Len(script) \/ script[j] = Endif

\* Only OP_ENDIF closes an envelope.
Closes(script, j) == Peek(script, j, Endif)

\* from_instructions, after an empty push at i - 1: where to go on, and the envelope if any.
from_instructions(script, i, offset, stutter) ==
  LET j == PushesEnd(script, i + 2)
      payload == [k \in 1..(j - i - 2) |-> script[i + 1 + k].data]
      pushnum == \E k \in (i + 2)..(j - 1) : script[k].op = "pushnum"
      envelope == [offset |-> offset, payload |-> payload, pushnum |-> pushnum, stutter |-> stutter]
  IN IF ~Peek(script, i, If) THEN Attempt(i, Peek(script, i, Push(0)), <<>>, TRUE)
     ELSE IF ~Peek(script, i + 1, Push(Ord))
          THEN Attempt(i + 1, Peek(script, i + 1, Push(0)), <<>>, TRUE)
     ELSE IF Closes(script, j) THEN Attempt(j + 1, FALSE, <<envelope>>, TRUE)
     ELSE Attempt(j + 1, FALSE, <<>>, ~Peek(script, j, Bad))

\* from_tapscript: nothing at all if an instruction is malformed.  A failed attempt says whether
\* the next one stutters; a found envelope does not reset it.
RECURSIVE Scan(_, _, _, _)
Scan(script, i, stuttered, envelopes) ==
  LET attempt == from_instructions(script, i + 1, Len(envelopes), stuttered)
  IN IF i > Len(script) THEN envelopes
     ELSE IF script[i] = Bad THEN <<>>
     ELSE IF script[i] # Push(0) THEN Scan(script, i + 1, stuttered, envelopes)
     ELSE IF ~attempt.ok THEN <<>>
     ELSE Scan(script, attempt.next, IF attempt.found = <<>> THEN attempt.stutter ELSE stuttered,
               envelopes \o attempt.found)

from_tapscript(script) == Scan(script, 1, FALSE, <<>>)

\* Mutant: an empty value is taken for the tag of the body.
BodyTags_AnyPlace(payload) == {i \in DOMAIN payload : payload[i] = BodyTag}

\* Where the tag of the body may be: an empty push in the place of a tag.
BodyTags(payload) == {i \in DOMAIN payload : i % 2 = 1 /\ payload[i] = BodyTag}

\* ParsedEnvelope::from, on a raw envelope; from_witness parses each input as input 0.
Parsed(raw) ==
  LET payload == raw.payload
      cut == IF BodyTags(payload) = {} THEN Len(payload) ELSE Min(BodyTags(payload)) - 1
      Keys == {payload[2 * k - 1] : k \in 1..(cut \div 2)}
      Pairs == [k \in 1..(cut \div 2) |-> <<payload[2 * k - 1], payload[2 * k]>>]
      Values(tag) == LET own == SelectSeq(Pairs, LAMBDA p : p[1] = tag)
                     IN [k \in DOMAIN own |-> own[k][2]]
      First(tag) == IF Values(tag) = <<>> THEN <<>> ELSE <<Values(tag)[1]>>
      single == {ContentEncodingTag, ContentTypeTag, MetaprotocolTag, PointerTag, RuneTag}
      left == {t \in Keys \ {MetadataTag, ParentTag} : t \notin single \/ Len(Values(t)) > 1}
  IN [inscription |->
        [content_type |-> First(ContentTypeTag), content_encoding |-> First(ContentEncodingTag),
         metaprotocol |-> First(MetaprotocolTag), parents |-> Values(ParentTag),
         pointer |-> First(PointerTag), metadata |-> Values(MetadataTag),
         body |-> IF cut = Len(payload) THEN <<>> ELSE <<SubSeq(payload, cut + 2, Len(payload))>>],
      input |-> 0, offset |-> raw.offset, pushnum |-> raw.pushnum, stutter |-> raw.stutter,
      duplicate_field |-> \E t \in Keys : Len(Values(t)) > 1,
      incomplete_field |-> cut % 2 = 1,
      unrecognized_even_field |-> \E t \in left : t % 2 = 0]

from_witness(script) == LET raw == from_tapscript(script) IN [i \in DOMAIN raw |-> Parsed(raw[i])]

--------------------------------------------------------------------------------
(* Bounded scripts and batches, on which the parser is checked.            *)

Tokens == {Push(0), Push(Ord), If, Endif, Num(1), Other, Bad}

ScriptsUpTo(n) == UNION {[1..k -> Tokens] : k \in 0..n}

WellFormed(script) == Bad \notin Range(script)

\* An envelope with nothing in it.
EmptyEnvelope == append_reveal_script(NoFields)

\* Every optional field present or not, a pointer of zero (the empty push), a body in no, one or
\* two chunks, and metadata in two.
SampleInscriptions ==
  {[NoFields EXCEPT !.content_type = c, !.pointer = p, !.body = b, !.metadata = m] :
     c \in {<<>>, <<4>>}, p \in {<<>>, <<0>>, <<6>>}, b \in {<<>>, <<<<>>>>, <<<<0, 5>>>>},
     m \in {<<>>, <<4>>, <<2, 2>>}}

================================================================================
