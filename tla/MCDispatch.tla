----------------------------- MODULE MCDispatch -----------------------------
(***************************************************************************)
(* Applications for TLC: every list of up to MaxHandlers handlers of       *)
(* device callbacks whose smallest id is 0, and every list of handlers of  *)
(* signals, each with one of the other kind.                               *)
(***************************************************************************)
EXTENDS Dispatch

CONSTANT MaxHandlers    \* bound: the handlers of an application

Cb(id, ep, cluster, attr) == [id |-> id, ep |-> ep, cluster |-> cluster, attr |-> attr]
Sig(signal, answers) == [signal |-> signal, answers |-> answers]

\* SET_ATTR is 0; there are handlers of id 2, none of id 1, and calls with 3.
CbKinds == {Cb(0, ep, t[1], t[2]) : ep \in {All, 1, 2},
                                    t \in {<<All, All>>, <<"c1", All>>, <<"c1", "a1">>}}
           \cup {Cb(2, ep, All, All) : ep \in {All, 1, 2}}
CbLists == {list \in SeqOf(CbKinds, MaxHandlers) : list = <<>> \/ Min(Ids(list)) = 0}

SigLists == SeqOf({Sig(s, a) : s \in {"start", "leave"}, a \in BOOLEAN}, MaxHandlers)

Applications(cbs, sigs) == {[callbacks |-> c, signals |-> s, eps |-> <<2, 1>>, default |-> d] :
                               c \in cbs, s \in sigs, d \in BOOLEAN}

MCPrograms == Applications(CbLists, {<<Sig("start", TRUE)>>})
              \cup Applications({<<Cb(0, All, All, All)>>}, SigLists)

MCParams == [id : 0..3, ep : {1, 2}, cluster : {"c1", "c2"}, attr : {"a1", "a2"}]
=============================================================================
