----------------------------- MODULE MCValidators -----------------------------
(***************************************************************************)
(* Small instances of Validators: three keys, genesis sets with equal and  *)
(* with uneven powers, and val transactions of one or two items signed by  *)
(* everybody or by the first key alone.                                    *)
(***************************************************************************)
EXTENDS Validators

MCKeys == 1..3

MCGeneses == {<<3, 3, 3>>, <<4, 3, 2>>, <<5, 2>>, <<1>>}

Item == [key : MCKeys, power : {-1, 0, 1, 2, 4, 5}]

Lists == {<<>>} \cup {<<v>> : v \in Item}
           \cup {<<v, w>> : v, w \in [key : MCKeys, power : {0, 2, 4}]}

Tx == [items : Lists, signers : {MCKeys}]
        \cup [items : {<<[key |-> 2, power |-> 2]>>}, signers : {{1}}]

\* Blocks with at most one val transaction, which names a key once.
MCRegular == {b \in {<<>>} \cup {<<t>> : t \in Tx} : Regular(b)}

\* Any val transaction, and some pairs of them in one block.
Few == [items : {<<[key |-> 1, power |-> p]>> : p \in {2, 5}}
                  \cup {<<[key |-> 3, power |-> 1]>>},
        signers : {MCKeys}]
MCBlocks == {<<>>} \cup {<<t>> : t \in Tx} \cup {<<t, u>> : t, u \in Few}
=============================================================================
