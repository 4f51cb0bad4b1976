------------------------------- MODULE MCPolicy -------------------------------
(* A grant that may prepare a submission, with every scope, and one that may prepare a *)
(* publication, read and highlight.                                                    *)
EXTENDS Policy, TLC

Ref == [document |-> 0, origin |-> Home, epoch |-> 0, issuedAt |-> 0, expiresAt |-> 2]

Asked(kind, to, targets, classes) ==
  [kind |-> kind, to |-> to, targets |-> targets, classes |-> classes]

MCActions ==
  {Asked("page.a11y.read", None, {}, {}), Asked("page.navigate", Elsewhere, {}, {}),
   Asked("page.form.draft", None, {Ref}, {"private"}),
   Asked("page.form.submit", None, {Ref}, {}), Asked("page.form.submit", None, {}, {}),
   Asked("content.publish", None, {}, {}), Asked("browser.cookie.read", None, {}, {}),
   Asked("page.do-anything", None, {}, {})}

MCGrants ==
  {[scopes |-> {"page.a11y.read", "data.egress.model", "page.scroll", "page.form.draft",
                "page.navigate.same_origin", "page.highlight"},
    actionTypes |-> {"page.form.submit"}],
   [scopes |-> {"page.a11y.read", "data.egress.model", "page.highlight"},
    actionTypes |-> {"content.publish"}]}

Symmetry == Permutations(Witnesses)
===============================================================================
