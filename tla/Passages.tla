------------------------------ MODULE Passages ------------------------------
(***************************************************************************)
(* The text functions of src/features/rag: chunker.py, which cuts a text     *)
(* into overlapping chunks, and augmenter.py, which puts passages before a   *)
(* prompt within a budget.  Each is a loop, and a step here is one turn of   *)
(* it.                                                                      *)
(*                                                                         *)
(* Of a text, its words separated by single spaces, it matters where words   *)
(* and sentences begin.  A chunk is a piece of it: since what is carried     *)
(* over is the end of the chunk before, the code's concatenations are        *)
(* extensions of an interval of the text.                                    *)
(***************************************************************************)
EXTENDS Naturals, Sequences

CONSTANTS
    ChunkSize,    \* chunk_size
    Overlap,      \* overlap
    Texts,        \* the texts that may be chunked
    Budget,       \* max_context_chars
    Contexts      \* the lists of documents a prompt may be augmented with

\* Where the words begin, with the place behind the last one's space at the end;
\* and which words begin sentences, with the one behind the last at the end.
IsText(t) ==
    /\ t.starts \in Seq(Nat) /\ t.starts # <<>> /\ t.starts[1] = 0
    /\ \A i, j \in DOMAIN t.starts : i < j => t.starts[i] + 1 < t.starts[j]
    /\ t.heads \in Seq(DOMAIN t.starts) /\ t.heads # <<>> /\ t.heads[1] = 1
    /\ t.heads[Len(t.heads)] = Len(t.starts)
    /\ \A i, j \in DOMAIN t.heads : i < j => t.heads[i] < t.heads[j]

\* A document: how long its text is, and whether it is a dict or a plain string.
Document == [length : Nat, dict : BOOLEAN]

ASSUME SizeAssumption    == ChunkSize \in Nat \ {0} /\ Overlap \in 0 .. ChunkSize - 1
ASSUME TextAssumption    == \A t \in Texts : IsText(t)
ASSUME BudgetAssumption  == Budget \in Nat \ {0}
ASSUME ContextAssumption == Contexts \subseteq Seq(Document)

VARIABLES
    text,         \* the text, in chunk
    turn,         \* the sentence whose turn it is
    word,         \* the word whose turn it is in _split_long_sentence, or 0
    current,      \* current_chunk, or current in _split_long_sentence
    chunks        \* those made so far

chunker == <<text, turn, word, current, chunks>>

\* A chunk: the characters up to the word at `end`; those before `own` were
\* carried over from the chunk before.
Chunk == [from : Nat, own : Nat, end : Nat]

\* The empty chunk, to be filled from place p.
Nothing(p) == [from |-> p, own |-> p, end |-> p]

IsEmpty(c) == c.from = c.end

\* len() of a chunk: the space behind its last word is not part of it.
Size(c) == c.end - 1 - c.from

Extended(c, e) == [c EXCEPT !.end = e]

\* A non-empty chunk in the making is put with the others.
Flushed == IF IsEmpty(current) THEN chunks ELSE Append(chunks, current)

WordAt(w)     == text.starts[w]
SentenceAt(s) == text.starts[text.heads[s]]

ChunkerInit ==
    /\ text \in Texts
    /\ turn = 1
    /\ word = 0
    /\ current = Nothing(0)
    /\ chunks = <<>>

-----------------------------------------------------------------------------
(* The chunker. *)

InSentences == word = 0 /\ turn < Len(text.heads)
Long        == SentenceAt(turn + 1) - 1 - SentenceAt(turn) > ChunkSize
Room(e)     == Size(Extended(current, e)) <= ChunkSize

\* Mutant: a long sentence does not flush what is in the making.
LongUnflushed ==
    /\ InSentences /\ Long
    /\ chunks' = chunks
    /\ current' = Nothing(SentenceAt(turn))
    /\ word' = text.heads[turn]
    /\ UNCHANGED <<text, turn>>

\* A sentence longer than a chunk is split at its words, from a new chunk on.
LongSentence ==
    /\ InSentences /\ Long
    /\ chunks' = Flushed
    /\ current' = Nothing(SentenceAt(turn))
    /\ word' = text.heads[turn]
    /\ UNCHANGED <<text, turn>>

FittingSentence ==
    /\ InSentences /\ ~Long /\ Room(SentenceAt(turn + 1))
    /\ current' = Extended(current, SentenceAt(turn + 1))
    /\ turn' = turn + 1
    /\ UNCHANGED <<text, word, chunks>>

\* The words that begin behind a space of chunk c at or after place p.
Behind(c, p) == {i \in DOMAIN text.starts : p < WordAt(i) /\ WordAt(i) < c.end}

\* Where what is carried over begins: of the last Overlap characters, those behind
\* the first space, or all of them, a part of a word, when there is none.
Carried(c) ==
    LET p == IF Size(c) > Overlap THEN c.end - 1 - Overlap ELSE c.from
    IN  IF Overlap = 0 THEN c.end
        ELSE IF Behind(c, p) = {} THEN p
        ELSE WordAt(CHOOSE i \in Behind(c, p) : \A j \in Behind(c, p) : i <= j)

\* The sentence begins a new chunk, behind what is carried over from this one.
NextSentence ==
    /\ InSentences /\ ~Long /\ ~Room(SentenceAt(turn + 1))
    /\ chunks' = Flushed
    /\ current' = [from |-> Carried(current), own |-> current.end, end |-> SentenceAt(turn + 1)]
    /\ turn' = turn + 1
    /\ UNCHANGED <<text, word>>

(* _split_long_sentence: what it returns goes to the chunks. *)

InWords == word > 0 /\ word < text.heads[turn + 1]

FittingWord ==
    /\ InWords /\ Room(WordAt(word + 1))
    /\ current' = Extended(current, WordAt(word + 1))
    /\ word' = word + 1
    /\ UNCHANGED <<text, turn, chunks>>

\* A word that does not fit begins a new chunk, or is one, being too long itself.
NextWord ==
    /\ InWords /\ ~Room(WordAt(word + 1))
    /\ LET alone == Extended(Nothing(WordAt(word)), WordAt(word + 1))
       IN  IF Size(alone) > ChunkSize
           THEN /\ chunks' = Append(Flushed, alone)
                /\ current' = Nothing(WordAt(word + 1))
           ELSE /\ chunks' = Flushed
                /\ current' = alone
    /\ word' = word + 1
    /\ UNCHANGED <<text, turn>>

SentenceSplit ==
    /\ word > 0 /\ word = text.heads[turn + 1]
    /\ chunks' = Flushed
    /\ current' = Nothing(SentenceAt(turn + 1))
    /\ word' = 0
    /\ turn' = turn + 1
    /\ UNCHANGED text

\* The remaining chunk; behind it, chunk returns.
Remaining ==
    /\ word = 0 /\ turn = Len(text.heads)
    /\ ~IsEmpty(current)
    /\ chunks' = Flushed
    /\ current' = Nothing(current.end)
    /\ UNCHANGED <<text, turn, word>>

Chunked == word = 0 /\ turn = Len(text.heads) /\ IsEmpty(current)

ChunkerNext ==
    LongSentence \/ FittingSentence \/ NextSentence \/ FittingWord \/ NextWord
        \/ SentenceSplit \/ Remaining

ChunkerSpec == ChunkerInit /\ [][ChunkerNext]_chunker

-----------------------------------------------------------------------------
(* The augmenter. *)

VARIABLES
    context,      \* context_docs
    looked,       \* how many of them the loop has looked at
    total,        \* total_chars
    parts         \* context_parts: whose they are, how long, and how much text
                  \* is before them

augmenter == <<context, looked, total, parts>>

AugmenterInit ==
    /\ context \in Contexts
    /\ looked = 0
    /\ total = 0
    /\ parts = <<>>

\* A dict without text is passed over.
SkipDocument ==
    /\ looked < Len(context)
    /\ context[looked + 1].dict /\ context[looked + 1].length = 0
    /\ looked' = looked + 1
    /\ UNCHANGED <<context, total, parts>>

Usable == looked < Len(context) /\ ~(context[looked + 1].dict /\ context[looked + 1].length = 0)

Inject(n) ==
    /\ parts' = Append(parts, [doc |-> looked + 1, before |-> total, length |-> n])
    /\ total' = total + n
    /\ looked' = looked + 1
    /\ UNCHANGED context

\* Mutant: a document is cut to the budget, not to what is left of it.
CutToBudget ==
    /\ Usable /\ Budget > total
    /\ Inject(IF context[looked + 1].length > Budget THEN Budget ELSE context[looked + 1].length)

\* A document is cut to what is left of the budget.
InjectDocument ==
    /\ Usable /\ Budget > total
    /\ Inject(IF context[looked + 1].length > Budget - total THEN Budget - total
                                                           ELSE context[looked + 1].length)

\* `break`: nothing is left of it.
OutOfBudget ==
    /\ Usable /\ ~(Budget > total)
    /\ looked' = Len(context)
    /\ UNCHANGED <<context, total, parts>>

AugmenterNext == SkipDocument \/ InjectDocument \/ OutOfBudget

AugmenterSpec == AugmenterInit /\ [][AugmenterNext]_augmenter

-----------------------------------------------------------------------------
AtWord(p) == \E i \in DOMAIN text.starts : WordAt(i) = p

\* Chunk c has one word, and nothing that was carried over.
OneWord(c) ==
    c.from = c.own /\ ~\E i \in DOMAIN text.starts : c.own < WordAt(i) /\ WordAt(i) < c.end

\* Every word of a text is in its chunks once, whole and in its place, beside what
\* is carried over; and that is the end of the chunk before, within the overlap
\* and from the beginning of a word, or a part of one word.
WordsKept ==
    /\ \A i \in DOMAIN chunks :
          LET c == chunks[i] IN
          /\ c.own = (IF i = 1 THEN 0 ELSE chunks[i - 1].end) /\ c.own < c.end
          /\ AtWord(c.own) /\ AtWord(c.end)
          /\ c.from # c.own =>
                /\ i > 1 /\ chunks[i - 1].from <= c.from
                /\ c.from < c.own /\ c.own - 1 - c.from <= Overlap
                /\ AtWord(c.from) \/ ~\E j \in DOMAIN text.starts :
                                          c.from < WordAt(j) /\ WordAt(j) < c.own
    /\ Chunked => text.starts[Len(text.starts)] =
                     (IF chunks = <<>> THEN 0 ELSE chunks[Len(chunks)].end)

\* Beside what is carried over, no chunk outgrows the size asked for, but for a
\* word that does so by itself; so none is longer than chunk_size + overlap and
\* the space between.
ChunksBounded ==
    \A i \in DOMAIN chunks :
       \/ /\ chunks[i].end - 1 - chunks[i].own <= ChunkSize
          /\ Size(chunks[i]) <= ChunkSize + Overlap + 1
       \/ OneWord(chunks[i])

ChunksSound == WordsKept /\ ChunksBounded

\* "Non-empty chunk strings, each at most ``self.chunk_size`` characters", words
\* that are longer by themselves aside.
ChunksFit == \A i \in DOMAIN chunks : Size(chunks[i]) <= ChunkSize \/ OneWord(chunks[i])

\* The passages injected are the documents in their order, whole until the budget
\* is used up: it is never exceeded, at most the last one is cut, and none is
\* left out while there is room.
BudgetFilled ==
    /\ total <= Budget
    /\ total = (IF parts = <<>> THEN 0 ELSE parts[Len(parts)].before + parts[Len(parts)].length)
    /\ \A i \in DOMAIN parts :
          /\ parts[i].before = (IF i = 1 THEN 0 ELSE parts[i - 1].before + parts[i - 1].length)
          /\ i > 1 => parts[i - 1].doc < parts[i].doc
          /\ \/ parts[i].length = context[parts[i].doc].length
             \/ i = Len(parts) /\ total = Budget /\ parts[i].length < context[parts[i].doc].length
    /\ total < Budget => \A d \in 1 .. looked :
          context[d].length > 0 => \E i \in DOMAIN parts : parts[i].doc = d
=============================================================================
