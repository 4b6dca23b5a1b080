---------------------------- MODULE MCTemplates -----------------------------
(* A function F of one variable, a function G of two, a class C of one,    *)
(* pointers and two types without arguments.                               *)
EXTENDS Templates

T == Var(1)
U == Var(2)
Long == Use("Long", <<>>)
Byte == Use("Byte", <<>>)
F(t)    == Use("F", <<t>>)
G(t, u) == Use("G", <<t, u>>)
C(t)    == Use("C", <<t>>)
Ptr(t)  == Use("Ptr", <<t>>)

VarsMC == [F |-> 1, G |-> 2, C |-> 1, Ptr |-> 1, Long |-> 0, Byte |-> 0]
PrimitivesMC == {"Ptr", "Long", "Byte"}

BodiesOf(o) ==
    CASE o = "F" -> {
            <<>>, <<F(T)>>, <<G(T, Long)>>, <<F(C(T))>>, <<C(T), G(Long, T)>>,
            <<G(C(T), T), F(T), F(Long)>>, <<Ptr(T), G(Byte, C(T)), C(C(T))>>,
            <<F(Ptr(T)), F(C(Ptr(T))), G(T, T), C(T)>>}
      [] o = "G" -> {
            <<>>, <<G(U, T)>>, <<F(U)>>, <<G(U, C(T)), G(T, U)>>,
            <<F(T), F(U), G(C(U), C(T))>>, <<C(U), G(Ptr(U), Byte), F(C(C(T))), G(U, T)>>}
      [] o = "C" -> {
            <<>>, <<F(C(T))>>, <<G(T, C(T))>>, <<F(C(T)), C(Ptr(T))>>,
            <<Ptr(C(T)), G(C(T), T), C(C(T))>>}
      [] OTHER -> {<<>>}
BodiesMC == [o \in DOMAIN VarsMC |-> BodiesOf(o)]

RootsMC == {F(Long), F(C(Byte)), G(Long, C(Long)), G(C(C(Long)), Byte), C(Ptr(Long))}

MethodsMC == [o \in DOMAIN VarsMC |->
    IF o = "C" THEN <<"size", "copy", "hash">> ELSE <<>>]
HashMC == [size |-> 4, copy |-> 7, hash |-> 2]
=============================================================================
