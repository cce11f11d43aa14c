----------------------- MODULE MCKubernetesReconciler -----------------------
(* Instances of KubernetesReconciler for TLC: one or two SLOs, with names of  *)
(* their own or with one name in two namespaces.                             *)
EXTENDS KubernetesReconciler

CONSTANTS s1, s2, n1, n2

OwnNames == [s \in SLOs |-> IF s = s1 THEN n1 ELSE n2]
OneName  == [s \in SLOs |-> n1]

=============================================================================
