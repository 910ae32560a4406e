------------------------------ MODULE MCChrome -------------------------------
(* The browser's interface, the fields of the page it shows, and the window it is
   in: each has its own state, and a behaviour is one of one of them. A short page of
   the browser's own, and two of the web, one longer than the window; a page with two
   text fields, two radios and a submit button, all but one field in a form. *)
EXTENDS Chrome, Window, PageInput, TLC

CONSTANTS home, p, q, a, b, r1, r2, s, form

MCTextOf == (home :> 1) @@ (p :> 2) @@ (q :> 1)
MCHeight == (home :> -1) @@ (p :> 2) @@ (q :> 0)
MCSpots  == (home :> <<0>>) @@ (p :> <<0, 2>>) @@ (q :> <<>>)

MCNodes == {a, b, r1, r2, s}
MCOrder == <<a, b, r1, r2, s>>
MCKind  == (a :> "text") @@ (b :> "text") @@ (r1 :> "radio") @@ (r2 :> "radio")
             @@ (s :> "submit")
MCForm  == [n \in MCNodes |-> IF n = b THEN NoForm ELSE form]

TabsRest   == Init /\ tabs[1].url = Home
FieldsRest == InputInit
WinRests   == WinInit /\ inner = Max(Sizes) /\ level = "strict" /\ due = [x \in Sources |-> Never]

AtTabs   == FieldsRest /\ WinRests /\ Next /\ UNCHANGED <<inputVars, winVars>>
AtFields == TabsRest /\ WinRests /\ InputNext /\ UNCHANGED <<vars, winVars>>
AtWindow == TabsRest /\ FieldsRest /\ WinNext /\ UNCHANGED <<vars, inputVars>>

InterfaceInit == Init /\ InputInit /\ WinInit
InterfaceSpec == InterfaceInit /\ [][AtTabs \/ AtFields \/ AtWindow]_<<vars, inputVars, winVars>>
=============================================================================
