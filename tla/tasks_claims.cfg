SPECIFICATION Spec
CONSTANTS
    Teammates = {n1, n2}
    NoOne = noone
    Missing = missing
    MaxTasks = 1
    MaxIds = 1
PROPERTIES
    NoForeignWork
