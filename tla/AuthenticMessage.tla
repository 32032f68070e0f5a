-------------------------- MODULE AuthenticMessage --------------------------
(***************************************************************************)
(* What Veil promises of a message, with no word of headers, tags or       *)
(* bytes: senders compose texts for sets of readers, and one reader, who   *)
(* has in mind one sender, is shown a text piece by piece.  What she is    *)
(* shown is at every moment the beginning of one text that this sender     *)
(* composed for her; if she accepts it, it is that whole text, and it was  *)
(* finished by its sender.  She may reject at any time.                    *)
(***************************************************************************)
EXTENDS Naturals, Sequences

CONSTANTS Texts,     \* the names of the texts
          People,
          Pieces,    \* what a text is made of
          Nobody     \* not the name of a text

VARIABLES author,    \* author[t]: who composes t
          readers,   \* readers[t]: whom t is for; {} before it is begun
          text,      \* text[t]: its pieces so far
          finished,  \* the texts that are finished
          reader, trusted,   \* the reader, and the sender she has in mind
          chosen,    \* the text she is being shown, or Nobody
          shown,     \* the pieces she was shown
          verdict    \* "pending", "accepted" or "rejected"

vars == <<author, readers, text, finished, reader, trusted, chosen, shown, verdict>>

Init ==
  /\ author \in [Texts -> People]
  /\ readers = [t \in Texts |-> {}]
  /\ text = [t \in Texts |-> << >>]
  /\ finished = {}
  /\ reader \in People
  /\ trusted \in People
  /\ chosen = Nobody
  /\ shown = << >>
  /\ verdict = "pending"

TheReader == <<reader, trusted, chosen, shown, verdict>>
TheTexts  == <<author, readers, text, finished>>

Address(t) ==
  /\ readers[t] = {} /\ text[t] = << >> /\ t \notin finished
  /\ \E set \in SUBSET People : readers' = [readers EXCEPT ![t] = set]
  /\ UNCHANGED <<author, text, finished, TheReader>>

Compose(t) ==
  /\ t \notin finished
  /\ \E piece \in Pieces : text' = [text EXCEPT ![t] = Append(@, piece)]
  /\ UNCHANGED <<author, readers, finished, TheReader>>

Finish(t) ==
  /\ t \notin finished
  /\ finished' = finished \union {t}
  /\ UNCHANGED <<author, readers, text, TheReader>>

Choose ==
  /\ verdict = "pending" /\ chosen = Nobody
  /\ \E t \in Texts :
       /\ author[t] = trusted
       /\ reader \in readers[t]
       /\ chosen' = t
  /\ UNCHANGED <<TheTexts, reader, trusted, shown, verdict>>

Show ==
  /\ verdict = "pending" /\ chosen # Nobody
  /\ Len(shown) < Len(text[chosen])
  /\ shown' = Append(shown, text[chosen][Len(shown) + 1])
  /\ UNCHANGED <<TheTexts, reader, trusted, chosen, verdict>>

Accept ==
  /\ verdict = "pending" /\ chosen \in finished
  /\ shown = text[chosen]
  /\ verdict' = "accepted"
  /\ UNCHANGED <<TheTexts, reader, trusted, chosen, shown>>

Reject ==
  /\ verdict = "pending"
  /\ verdict' = "rejected"
  /\ UNCHANGED <<TheTexts, reader, trusted, chosen, shown>>

Next ==
  \/ \E t \in Texts : Address(t) \/ Compose(t) \/ Finish(t)
  \/ Choose \/ Show \/ Accept \/ Reject

SafeSpec == Init /\ [][Next]_vars

\* The reader is not kept waiting for ever.
Spec == SafeSpec /\ WF_vars(Accept \/ Reject)
=============================================================================
