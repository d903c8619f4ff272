------------------------------- MODULE MCStartup -------------------------------
(****************************************************************************)
(* Startup on databases that earlier versions may have left: any of the     *)
(* newer tables missing, complete, or with rows and without its columns;    *)
(* with or without accounts and clients.                                    *)
(****************************************************************************)
EXTENDS Startup

\* What an earlier version may have of a table: nothing, all of it, or an old form whose
\* rows lack values.
Forms(table, olds) ==
    {[tables |-> {}, columns |-> {}, gaps |-> {}],
     [tables |-> {table}, columns |-> ColumnsOf[table], gaps |-> {}]}
    \cup {[tables |-> {table}, columns |-> ColumnsOf[table] \ old, gaps |-> old] : old \in olds}

ProjectForms  == Forms("Projects", {{"updatedAt"}})
DecisionForms == Forms("DecisionLog", {{"decisionAuthor"}})
ChangeForms   ==
    Forms("ChangeHistory", {{"decisionId"}, {"changeAuthor"}, {"decisionId", "changeAuthor"}})
    \cup {[tables |-> {"ChangeHistory"}, columns |-> {},
           gaps |-> {"decisionId", "changeAuthor", "unnamedDecision"}]}

\* A database of an earlier version, put together from the forms of its tables.
Old(forms, others, users, office) ==
    [tables   |-> {"Users", "Clients"} \cup others \cup UNION {f.tables : f \in forms},
     columns  |-> UNION {f.columns : f \in forms},
     gaps     |-> UNION {f.gaps : f \in forms},
     users    |-> users, demos |-> 0, drawings |-> 0, linked |-> FALSE, office |-> office]

MCEarlier ==
    {Old({f, g, h}, others, users, office) :
        f \in ProjectForms, g \in DecisionForms, h \in ChangeForms,
        others \in {{}, {"Others"}}, users \in {{}, {"manager", "architect"}},
        office \in BOOLEAN}
================================================================================
