SPECIFICATION Spec
CONSTANTS
    Name = {n1, n2, n3}
    Id = {1, 2}
    MaxHold = 3
PROPERTY TableImplementsMap
