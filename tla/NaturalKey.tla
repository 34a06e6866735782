----------------------------- MODULE NaturalKey -----------------------------
(***************************************************************************)
(* canonicalizeNaturalKey, which decides which webhooks are about the same *)
(* entity.  Its input is text that a language model wrote: LlmBoundary,    *)
(* which extends this module, writes that text one character at a time and *)
(* looks at the key after every character.  A character is a letter (in    *)
(* either case: "a", "A"; it stands for everything the function leaves     *)
(* alone), a colon or a space.                                             *)
(***************************************************************************)
EXTENDS Naturals, FiniteSetsExt, SequencesExt

CONSTANT MaxLength  \* bound: characters written

ASSUME NaturalKeyAssumption == MaxLength \in Nat

VARIABLE text  \* data.natural_key so far

Colon == ":"
Space == " "
Letters == {"a", "A", "b"}
Chars == Letters \cup {Colon, Space}

-----------------------------------------------------------------------------
(* Without the characters c at either end.                                 *)
StripEnds(s, c) ==
  LET kept == {i \in DOMAIN s : s[i] # c}
  IN IF kept = {} THEN <<>> ELSE SubSeq(s, Min(kept), Max(kept))

ToLower(s) == [i \in DOMAIN s |-> IF s[i] = "A" THEN "a" ELSE s[i]]

(* replace(/:+/g, ':').                                                    *)
CollapseColons(s) ==
  LET Repeats(i) == i > 1 /\ s[i] = Colon /\ s[i - 1] = Colon
  IN FoldLeftDomain(LAMBDA done, i : done \o (IF Repeats(i) THEN <<>> ELSE <<s[i]>>),
                    <<>>, s)

(* Faulty variant, used by the mutation checks only. *)
WithoutCollapse(raw) == StripEnds(ToLower(StripEnds(raw, Space)), Colon)

(* raw.trim().toLowerCase(), colons collapsed, then stripped at the ends.  *)
canonicalizeNaturalKey(raw) ==
  LET trimmed == StripEnds(raw, Space)
      lowered == ToLower(trimmed)
      collapsed == CollapseColons(lowered)
  IN StripEnds(collapsed, Colon)

(* The model writes one more character.                                    *)
Write(c) == Len(text) < MaxLength /\ text' = Append(text, c)

-----------------------------------------------------------------------------
key == canonicalizeNaturalKey(text)

(* The key by what becomes of each character, without passes over the      *)
(* text: a space is dropped at the ends of the text; a colon, if another   *)
(* follows or nothing else precedes or follows it inside those ends.       *)
Inside == {i \in DOMAIN text :
             (\E j \in 1..i : text[j] # Space) /\ (\E j \in i..Len(text) : text[j] # Space)}
Survives(i) ==
  /\ i \in Inside
  /\ text[i] = Colon =>
       /\ i + 1 \in Inside /\ text[i + 1] # Colon
       /\ \E j \in Inside : j < i /\ text[j] # Colon

(* The three passes of the function do to the text exactly what that says, *)
(* in spite of their order and of the one regular expression that strips   *)
(* both ends: no letter is lost and no separator between two parts is.     *)
KeyIsWhatSurvives ==
  LET kept == {i \in DOMAIN text : Survives(i)} IN
  /\ Len(key) = Cardinality(kept)
  /\ \A i \in kept : key[Cardinality({j \in kept : j <= i})] = ToLower(text)[i]
=============================================================================
