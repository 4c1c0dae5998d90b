----------------------------- MODULE Generation -----------------------------
(***************************************************************************)
(* What serving a model promises: the tokens of a sequence only ever grow  *)
(* by the token the whole model puts after them, whatever was batched with *)
(* them, however their prompt was cut and however many ranks there are.    *)
(* A sequence may be spoilt, once and for all; it still grows by one token *)
(* at a time, and the others do not notice.                                *)
(***************************************************************************)
EXTENDS Naturals, SequencesExt

CONSTANTS
  Seqs,             \* the sequences
  Configs,          \* the models
  NextToken(_, _)   \* the token a model puts after a sequence

VARIABLES
  config,   \* the model that is served
  tokens,   \* tokens[s]: the tokens of s, prompt and output
  spoilt    \* the sequences whose keys and values are not where they belong

Init == config \in Configs /\ tokens \in [Seqs -> Seq(Nat)] /\ spoilt = {}

Generate ==
  /\ tokens' # tokens /\ DOMAIN tokens' = Seqs
  /\ \A s \in Seqs :
       \/ tokens'[s] = tokens[s]
       \/ tokens'[s] = Append(tokens[s], NextToken(config, tokens[s]))
       \/ s \in spoilt /\ Len(tokens'[s]) = Len(tokens[s]) + 1 /\ IsPrefix(tokens[s], tokens'[s])
  /\ UNCHANGED <<config, spoilt>>

Spoil ==
  /\ spoilt \subseteq spoilt' /\ spoilt' # spoilt
  /\ UNCHANGED <<config, tokens>>

Spec == Init /\ [][Generate \/ Spoil]_<<config, tokens, spoilt>>
=============================================================================
