\* Two clients, two names, two requests that are executed, a Brain of every release.
SPECIFICATION Spec
CONSTANTS
    c1 = c1
    c2 = c2
    n1 = n1
    n2 = n2
    Clients = {c1, c2}
    Names = {n1, n2}
    Own = "z4j-scheduler"
    Other = "celery-beat"
    Django = "declarative_django"
    Flask = "declarative_flask"
    Importer = "imported_celery"
    Manual = "cli"
    Dicts <- MCDicts
    MaxWrites = 2
SYMMETRY Symmetry
PROPERTIES
    AnsweredIsDone
    NamedIsMeant
