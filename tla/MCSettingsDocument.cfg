CONSTANTS
    name = name
    theme = theme
    digest = digest
    appearance = appearance
    email = email
    old = old
    new = new
    Writers = {old, new}
    Leaves = {name, theme, digest}
    Parents = {appearance, email}
    Path <- MCPath
    Known <- MCKnown
    Values = {on, off}
    Default = on
    Object = Object
    Maximum = 4
SPECIFICATION Spec
INVARIANT TypeOK
PROPERTIES FieldsImplemented NeverHollows RefusedSetUndone
