--------------------------- MODULE MCUpdateNotifier ---------------------------
(* Five notifications: two that differ in everything, one that shares its title *)
(* with the first and its address with the second, one without an address, and  *)
(* one that has nothing but the name of its provider.                          *)
EXTENDS UpdateNotifier

CONSTANTS title, uri, provider, a, b

Info(t, u, p) == [f \in Fields |-> IF f = title THEN t ELSE IF f = uri THEN u ELSE p]

MCNotifications ==
  {Info(a, a, NoText), Info(b, b, NoText), Info(a, b, NoText), Info(a, NoText, NoText),
   Info(NoText, NoText, a)}
=============================================================================
